---- MODULE Spec2Model ----
(***************************************************************************)
(* State-machine model of the kairo viewport controller (ViewportCanvas),  *)
(* its display helpers and the editor workspace that feeds it props.       *)
(*                                                                         *)
(* Conventions                                                             *)
(*  - Every handler of the component is an operator from a state record s  *)
(*    to the state record after the handler has run to completion (the     *)
(*    browser runs each handler, and each promise continuation, without    *)
(*    interleaving).  An action applies one event's handlers, then the Vue *)
(*    scheduler flush that follows it in the same tick.                    *)
(*  - THREE.Object3D instances live in `heap`, a map from object handles   *)
(*    to objects.  A handle is <<kind, owner id, n>>: the n-th live object *)
(*    of that kind made for that id.  An object nothing refers to any more *)
(*    is collected at the end of the step.                                 *)
(*  - Document ids are <<prefix, n>> (makeId(prefix)); n is never reused.  *)
(*  - Lengths are in twentieths of a world unit (0.5 = 10, 0.15 = 3); only *)
(*    the Y component of a position is kept, one scalar for scale and one  *)
(*    for rotation.  Angles are kept in degrees on both sides of the       *)
(*    DEG2RAD / RAD2DEG conversions (no floating-point rounding).          *)
(*  - Time advances in ticks; the gizmo debounce delay is DebounceTicks.   *)
(***************************************************************************)
EXTENDS Integers, Sequences, FiniteSets, TLC

\* ---------------------------------------------------------------- bounds
\* Nodes, lights and assets ever created in a run of Spec.
MaxNodes == 1
MaxLights == 1
MaxAssets == 2
\* Nodes and lights ever created in a run of SpecScene.
SceneMaxNodes == 3
SceneMaxLights == 2
\* Nodes ever created in a run of SpecGizmo; gizmo drags in a run; timers
\* pending at once; the debounce delay in clock ticks.
GizmoMaxNodes == 1
MaxDrags == 1
MaxTimers == 2
DebounceTicks == 2
\* Nodes ever created in a run of SpecOverlay.
OverlayMaxNodes == 2
\* Nodes and lights ever created in a run of SpecEditor.
EditMaxNodes == 2
EditMaxLights == 1
\* Deletions and updates in a run of SpecEditor.
EditMaxCalls == 2
\* Nodes and lights ever created in a run of SpecLegacy.
LegacyMaxNodes == 2
LegacyMaxLights == 2
\* Additions, deletions and updates made and requests pending at once in a
\* run of SpecStore.
StoreMaxEdits == 2
StoreMaxRequests == 2
\* The same, and the store instances created, in a run of SpecReload.
ReloadMaxEdits == 2
ReloadMaxRequests == 2
ReloadMaxStores == 2
\* Nodes ever created in a run of SpecMount.
MountMaxNodes == 1
\* Nodes ever created in a run of SpecKinds.
KindMaxNodes == 3
\* Calls of alignObjectToGround on one object in a run of SpecAlign.
AlignMaxCalls == 2
\* Frames and upward speed steps in a run of SpecFly; frames in a run of
\* SpecSwitch.
MaxFrames == 2
SwitchMaxFrames == 2
FlyMaxSteps == 1
\* Nodes ever created in a run of SpecPick; the largest pointer coordinate
\* (pixels along one axis) in SpecPick and SpecMenu.
PickMaxNodes == 1
MaxCoord == 5
\* Nodes, lights and assets ever created in a run of SpecDisplay.
DisplayMaxNodes == 1
DisplayMaxLights == 1
DisplayMaxAssets == 1

\* ------------------------------------------------------------- constants
Null == <<>>
NoObject == <<>>
\* transformUpdateTimeout === null; timer handles are positive.
NoTimer == 0
MOUSE_DRAG_THRESHOLD_SQ == 16
\* The longest time step a frame applies, in milliseconds.
MAX_FRAME_DELTA == 50
\* Camera speeds, in tenths of a unit per second.
DEFAULT_CAMERA_SPEED == 65
CAMERA_SPEED_MIN == 10
CAMERA_SPEED_MAX == 200
CAMERA_SPEED_STEP == 5
\* Material colours (hex values).
PRIMITIVE_COLOR == 9476516
IMPORTED_DEFAULT_COLOR == 10594482
\* A material without a colour property.
NoColor == -1
\* What the first material of a decoded model can carry: no colour property,
\* or some colour of the file; the material with a colour of its own is
\* also one with the native wireframe flag set.
FileColors == {NoColor, 16711680}

VARIABLES
  \* props of ViewportCanvas (set by the parent's re-render)
  nodes, lights, importedAssets, selectedObjectId, selectedIsPrimitive,
  selectedIsLight,
  \* EditorWorkspace refs behind the selection props, and its maps of
  \* imported-model transforms
  wsSelectedObjectId, wsSelectedIsPrimitive, wsSelectedIsLight,
  importedModelTransforms,
  \* makeId / createAssetId counters
  nodeSeq, lightSeq, assetSeq,
  \* watcher jobs queued for the next scheduler flush; whether the component
  \* is mounted
  queued, mounted,
  \* THREE objects
  heap, fresh, ambientLights,
  \* registries
  primitiveMeshes, importedObjects, lightObjects, sceneLights,
  loadingImports, isSyncingImports, passes,
  \* selection and gizmo
  selectedObject, currentSelectedId, isPrimitive, isLight, selectionHelper,
  gizmoObject, transformMode,
  \* browser timers (handle -> ticks left) and the debounce handle
  timers, transformUpdateTimeout,
  \* display
  polygonCountDirty, displayMode, showPolygonEdges, showVertices,
  edgeHelpers, vertexHelpers,
  \* observation of the run (not program state): ids disposed while still
  \* selected (ever); kinds whose selected entry the last step's removal loop
  \* cleared; assets whose decode failure the last step reported, and assets
  \* whose decode the last step saw fail; intents the last step emitted and
  \* whether it ran the debounce callback; the pending gizmo edit, the number
  \* of gizmo edits so far, the change events of the current burst, ticks
  \* since the last one, callbacks run since the last one
  disposedWhileSelected, clearedKinds, importErrors, rejected, emitted, fired,
  burst, drags, burstLen, sinceChange, firedSinceChange,
  \* the overlay helpers' calls in the last step; the colour each mesh had
  \* when the display mode last left solid (kept until the step after the
  \* mode is solid again)
  overlayCalls,
  solidColors,
  \* the steps onBeforeUnmount has performed, in order
  teardown,
  \* whether the frame loop has an animation frame requested
  frameRequested,
  \* pointer and keyboard input state of the component
  leftMouseState,
  rightMouseState,
  pendingPickEvent,
  keyState,
  contextMenu,
  \* the environment: where the pointer is and the gesture of each button
  \* that is down ([start, far, onCanvas, menuAt]; far: some move of the
  \* gesture went beyond the drag threshold; menuAt: whether the browser
  \* sends contextmenu at the press or at the release); the gesture whose
  \* contextmenu event is about to be delivered; keys physically down; the
  \* focused element; whether the window has focus
  pointer,
  menuDue,
  keysHeld,
  activeElement,
  windowFocused,
  \* observation: keys whose last keydown reached the handler while the
  \* viewport had focus; the press location the last step picked at; whether
  \* the last step delivered a contextmenu event
  pressedInFocus,
  picked,
  menuEvent,
  cameraMovementSpeed,
  wheel,
  camera,
  perspCamera,
  orthoCamera,
  frameSeq,
  frame,
  poseBefore,
  hold,
  controlsTarget,
  model3d,
  listeners,
  gpuObjects,
  renderer,
  axesRenderer,
  mountOutcome,
  sceneId,
  sceneName,
  sceneSeq,
  requests,
  scenes,
  modelAssets,
  isHydrating,
  overlapped,
  edited,
  hydrated,
  idbDeferred,
  call,
  calls,
  legacy,
  racing,
  unawaited,
  polygonCount,
  counted,
  switched

vars ==
  <<nodes, lights, importedAssets, selectedObjectId, selectedIsPrimitive,
    selectedIsLight, wsSelectedObjectId, wsSelectedIsPrimitive,
    wsSelectedIsLight, importedModelTransforms, nodeSeq, lightSeq,
    assetSeq, queued, mounted, heap, fresh, ambientLights, primitiveMeshes,
    importedObjects, lightObjects, sceneLights, loadingImports,
    isSyncingImports, passes, selectedObject, currentSelectedId,
    isPrimitive, isLight, selectionHelper, gizmoObject, transformMode,
    timers, transformUpdateTimeout, polygonCountDirty, displayMode,
    showPolygonEdges, showVertices, edgeHelpers, vertexHelpers,
    disposedWhileSelected, clearedKinds, importErrors, rejected, emitted,
    fired, burst, drags, burstLen, sinceChange, firedSinceChange,
    overlayCalls,
    solidColors,
    teardown,
    frameRequested,
    leftMouseState,
    rightMouseState,
    pendingPickEvent,
    keyState,
    contextMenu,
    pointer,
    menuDue,
    keysHeld,
    activeElement,
    windowFocused,
    pressedInFocus,
    picked,
    menuEvent,
    cameraMovementSpeed,
    wheel,
    camera,
    perspCamera,
    orthoCamera,
    frameSeq,
    frame,
    poseBefore,
    hold,
    controlsTarget,
    model3d,
    listeners,
    gpuObjects,
    renderer,
    axesRenderer,
    mountOutcome,
    sceneId,
    sceneName,
    sceneSeq,
    requests,
    scenes,
    modelAssets,
    isHydrating,
    overlapped,
    edited,
    hydrated,
    idbDeferred,
    call,
    calls,
    legacy,
    racing,
    unawaited,
    polygonCount,
    counted,
    switched>>

\* The current state as one record, for the handlers to thread through.
\* A camera position is the orbit target's displacement (`base`) plus the
\* offset the orbit angle gives; a displacement maps each direction moved in
\* (<<angle, forward, right, up>>) to the distance moved, in 1/10000 unit.
Angles == {0, 1}
DefaultPosition == [base |-> <<>>, orbit |-> 0]
DefaultPose == [position |-> DefaultPosition, quaternion |-> 0]

\* The events onMounted attaches a listener for.
Listeners ==
  {"pointerdown", "pointermove", "pointerup", "keydown", "keyup", "blur",
   "clickOutside", "wheel"}

Cur ==
  [nodes |-> nodes, lights |-> lights, importedAssets |-> importedAssets,
   selectedObjectId |-> selectedObjectId,
   selectedIsPrimitive |-> selectedIsPrimitive,
   selectedIsLight |-> selectedIsLight,
   wsSelectedObjectId |-> wsSelectedObjectId,
   wsSelectedIsPrimitive |-> wsSelectedIsPrimitive,
   wsSelectedIsLight |-> wsSelectedIsLight,
   importedModelTransforms |-> importedModelTransforms,
   nodeSeq |-> nodeSeq, lightSeq |-> lightSeq, assetSeq |-> assetSeq,
   queued |-> queued, mounted |-> mounted, heap |-> heap, fresh |-> fresh,
   ambientLights |-> ambientLights, primitiveMeshes |-> primitiveMeshes,
   importedObjects |-> importedObjects, lightObjects |-> lightObjects,
   sceneLights |-> sceneLights, loadingImports |-> loadingImports,
   isSyncingImports |-> isSyncingImports, passes |-> passes,
   selectedObject |-> selectedObject,
   currentSelectedId |-> currentSelectedId, isPrimitive |-> isPrimitive,
   isLight |-> isLight, selectionHelper |-> selectionHelper,
   gizmoObject |-> gizmoObject, transformMode |-> transformMode,
   timers |-> timers, transformUpdateTimeout |-> transformUpdateTimeout,
   polygonCountDirty |-> polygonCountDirty, displayMode |-> displayMode,
   showPolygonEdges |-> showPolygonEdges, showVertices |-> showVertices,
   edgeHelpers |-> edgeHelpers, vertexHelpers |-> vertexHelpers,
   disposedWhileSelected |-> disposedWhileSelected,
   clearedKinds |-> clearedKinds, importErrors |-> importErrors,
   rejected |-> rejected,
   emitted |-> emitted, fired |-> fired, burst |-> burst, drags |-> drags,
   burstLen |-> burstLen, sinceChange |-> sinceChange,
   firedSinceChange |-> firedSinceChange,
   overlayCalls |-> overlayCalls,
   solidColors |-> solidColors,
   teardown |-> teardown,
   frameRequested |-> frameRequested,
   leftMouseState |-> leftMouseState,
   rightMouseState |-> rightMouseState,
   pendingPickEvent |-> pendingPickEvent,
   keyState |-> keyState,
   contextMenu |-> contextMenu,
   pointer |-> pointer,
   menuDue |-> menuDue,
   keysHeld |-> keysHeld,
   activeElement |-> activeElement,
   windowFocused |-> windowFocused,
   pressedInFocus |-> pressedInFocus,
   picked |-> picked,
   menuEvent |-> menuEvent,
   cameraMovementSpeed |-> cameraMovementSpeed,
   wheel |-> wheel,
   camera |-> camera,
   perspCamera |-> perspCamera,
   orthoCamera |-> orthoCamera,
   frameSeq |-> frameSeq,
   frame |-> frame,
   poseBefore |-> poseBefore,
   hold |-> hold,
   controlsTarget |-> controlsTarget,
   model3d |-> model3d,
   listeners |-> listeners,
   gpuObjects |-> gpuObjects,
   renderer |-> renderer,
   axesRenderer |-> axesRenderer,
   mountOutcome |-> mountOutcome,
   sceneId |-> sceneId,
   sceneName |-> sceneName,
   sceneSeq |-> sceneSeq,
   requests |-> requests,
   scenes |-> scenes,
   modelAssets |-> modelAssets,
   isHydrating |-> isHydrating,
   overlapped |-> overlapped,
   edited |-> edited,
   hydrated |-> hydrated,
   idbDeferred |-> idbDeferred,
   call |-> call,
   calls |-> calls,
   legacy |-> legacy,
   racing |-> racing,
   unawaited |-> unawaited,
   polygonCount |-> polygonCount,
   counted |-> counted,
   switched |-> switched]

\* The state a step starts from: the observations of the last step are reset.
Begin ==
  [Cur EXCEPT !.clearedKinds = {}, !.importErrors = {}, !.rejected = {},
              !.emitted = <<>>, !.fired = FALSE,
              !.overlayCalls = {},
              !.solidColors = IF displayMode = "solid" THEN <<>> ELSE @,
              !.picked = Null,
              !.menuEvent = FALSE,
              !.wheel = Null,
              !.frame = Null,
              !.hydrated = Null,
              !.call = Null,
              !.legacy = Null,
              !.counted = 0,
              !.switched = Null]

\* The next state is the record t.
\* The codes applyKeyboardMovement reads.
MovementKeys ==
  {"KeyW", "KeyS", "KeyA", "KeyD", "Space", "ShiftLeft", "ShiftRight"}
isViewportActive(s) == s.activeElement = "viewport"

ActiveCamera(s) ==
  IF s.camera = "perspective" THEN s.perspCamera ELSE s.orthoCamera

\* Observation: how long KeyW alone has driven the camera, from where and
\* at which speed, and whether every frame since was short, the speed the
\* same and the camera moved by nothing but the frames.
holding(s) ==
  s.mounted /\ isViewportActive(s) /\ s.keyState \cap MovementKeys = {"KeyW"}
holdAfter(s) ==
  IF ~holding(s) THEN Null
  ELSE IF hold = Null
  THEN [time |-> 0, from |-> ActiveCamera(s),
        S |-> s.cameraMovementSpeed, steady |-> TRUE]
  ELSE [hold EXCEPT
          !.time = IF s.frame # Null THEN @ + s.frame.delta ELSE @,
          !.steady = /\ @
                     /\ s.cameraMovementSpeed = hold.S
                     /\ s.camera = camera
                     /\ s.frame = Null
                          => ActiveCamera(s) = ActiveCamera(Cur)
                     /\ s.frame # Null => s.frame.delta <= MAX_FRAME_DELTA]

Commit(t) ==
  /\ nodes' = t.nodes
  /\ lights' = t.lights
  /\ importedAssets' = t.importedAssets
  /\ selectedObjectId' = t.selectedObjectId
  /\ selectedIsPrimitive' = t.selectedIsPrimitive
  /\ selectedIsLight' = t.selectedIsLight
  /\ wsSelectedObjectId' = t.wsSelectedObjectId
  /\ wsSelectedIsPrimitive' = t.wsSelectedIsPrimitive
  /\ wsSelectedIsLight' = t.wsSelectedIsLight
  /\ importedModelTransforms' = t.importedModelTransforms
  /\ nodeSeq' = t.nodeSeq
  /\ lightSeq' = t.lightSeq
  /\ assetSeq' = t.assetSeq
  /\ queued' = t.queued
  /\ mounted' = t.mounted
  /\ heap' = t.heap
  /\ fresh' = t.fresh
  /\ ambientLights' = t.ambientLights
  /\ primitiveMeshes' = t.primitiveMeshes
  /\ importedObjects' = t.importedObjects
  /\ lightObjects' = t.lightObjects
  /\ sceneLights' = t.sceneLights
  /\ loadingImports' = t.loadingImports
  /\ isSyncingImports' = t.isSyncingImports
  /\ passes' = t.passes
  /\ selectedObject' = t.selectedObject
  /\ currentSelectedId' = t.currentSelectedId
  /\ isPrimitive' = t.isPrimitive
  /\ isLight' = t.isLight
  /\ selectionHelper' = t.selectionHelper
  /\ gizmoObject' = t.gizmoObject
  /\ transformMode' = t.transformMode
  /\ timers' = t.timers
  /\ transformUpdateTimeout' = t.transformUpdateTimeout
  /\ polygonCountDirty' = t.polygonCountDirty
  /\ displayMode' = t.displayMode
  /\ showPolygonEdges' = t.showPolygonEdges
  /\ showVertices' = t.showVertices
  /\ edgeHelpers' = t.edgeHelpers
  /\ vertexHelpers' = t.vertexHelpers
  /\ disposedWhileSelected' = t.disposedWhileSelected
  /\ clearedKinds' = t.clearedKinds
  /\ importErrors' = t.importErrors
  /\ rejected' = t.rejected
  /\ emitted' = t.emitted
  /\ fired' = t.fired
  /\ burst' = t.burst
  /\ drags' = t.drags
  /\ burstLen' = t.burstLen
  /\ sinceChange' = t.sinceChange
  /\ firedSinceChange' = t.firedSinceChange
  /\ overlayCalls' = t.overlayCalls
  /\ solidColors' = t.solidColors
  /\ teardown' = t.teardown
  /\ frameRequested' = t.frameRequested
  /\ leftMouseState' = t.leftMouseState
  /\ rightMouseState' = t.rightMouseState
  /\ pendingPickEvent' = t.pendingPickEvent
  /\ keyState' = t.keyState
  /\ contextMenu' = t.contextMenu
  /\ pointer' = t.pointer
  /\ menuDue' = t.menuDue
  /\ keysHeld' = t.keysHeld
  /\ activeElement' = t.activeElement
  /\ windowFocused' = t.windowFocused
  /\ pressedInFocus' = t.pressedInFocus
  /\ picked' = t.picked
  /\ menuEvent' = t.menuEvent
  /\ cameraMovementSpeed' = t.cameraMovementSpeed
  /\ wheel' = t.wheel
  /\ camera' = t.camera
  /\ perspCamera' = t.perspCamera
  /\ orthoCamera' = t.orthoCamera
  /\ frameSeq' = t.frameSeq
  /\ frame' = t.frame
  /\ poseBefore' = t.poseBefore
  /\ hold' = holdAfter(t)
  /\ controlsTarget' = t.controlsTarget
  /\ model3d' = t.model3d
  /\ listeners' = t.listeners
  /\ gpuObjects' = t.gpuObjects
  /\ renderer' = t.renderer
  /\ axesRenderer' = t.axesRenderer
  /\ mountOutcome' = t.mountOutcome
  /\ sceneId' = t.sceneId
  /\ sceneName' = t.sceneName
  /\ sceneSeq' = t.sceneSeq
  /\ requests' = t.requests
  /\ scenes' = t.scenes
  /\ modelAssets' = t.modelAssets
  /\ isHydrating' = t.isHydrating
  /\ overlapped' = t.overlapped
  /\ edited' = t.edited
  /\ hydrated' = t.hydrated
  /\ idbDeferred' = t.idbDeferred
  /\ call' = t.call
  /\ calls' = t.calls
  /\ legacy' = t.legacy
  /\ racing' = t.racing
  /\ unawaited' = t.unawaited
  /\ polygonCount' = t.polygonCount
  /\ counted' = t.counted
  /\ switched' = t.switched

\* scene.lights ?? []: a document in the old format has no lights property.
lightsOf(scene) == IF "lights" \in DOMAIN scene THEN scene.lights ELSE <<>>

\* { ...scene, lights }: the copy has a lights property whether or not the
\* original had one.
withLights(scene, arr) ==
  IF "lights" \in DOMAIN scene THEN [scene EXCEPT !.lights = arr]
  ELSE [f \in DOMAIN scene \cup {"lights"} |->
          IF f = "lights" THEN arr ELSE scene[f]]

\* ------------------------------------------------------------ small helpers
Range(f) == {f[k] : k \in DOMAIN f}
Ids(arr) == {arr[i].id : i \in DOMAIN arr}
MapSet(m, k, v) == [x \in DOMAIN m \cup {k} |-> IF x = k THEN v ELSE m[x]]
MapDelete(m, k) == [x \in DOMAIN m \ {k} |-> m[x]]
EmptyMap == [x \in {} |-> NoObject]
\* The key of a set of ids that was inserted first (ids are made in order).
FirstKey(keys) == CHOOSE k \in keys : \A j \in keys : k[2] <= j[2]

\* Every mesh the display helpers walk: primitives and imported objects.
MeshObjects(s) == Range(s.primitiveMeshes) \cup Range(s.importedObjects)

\* ------------------------------------------------------- geometry factory
\* Variant: half the unit size for every kind.
getPrimitiveYOffsetHalfUnit(type) == 10

getPrimitiveYOffset(type) ==
  CASE type = "box" -> 10
    [] type = "sphere" -> 10
    [] type = "cylinder" -> 10
    [] type = "cone" -> 10
    [] type = "torus" -> 3
    [] type = "plane" -> 0
    [] OTHER -> 10

\* ----------------------------------------------------------------- heap
NewObject(kind, id) ==
  [kind |-> kind, id |-> id, disposed |-> FALSE, parent |-> "none",
   position |-> 0, scale |-> 20, rotation |-> 0, geometry |-> Null,
   lit |-> FALSE, opacity |-> 100, transparent |-> FALSE,
   wireframe |-> FALSE, triangles |-> 0,
   color |-> IF kind = "primitive" THEN PRIMITIVE_COLOR ELSE NoColor]

FreeHandle(s, kind, id) ==
  LET n == CHOOSE n \in 1..(Cardinality(DOMAIN s.heap) + 1) :
             /\ <<kind, id, n>> \notin DOMAIN s.heap
             /\ \A m \in 1..(n - 1) : <<kind, id, m>> \in DOMAIN s.heap
  IN <<kind, id, n>>
\* `new`: the object is stored under a free handle, which `fresh` then names.
AllocAt(s, obj, h) == [s EXCEPT !.heap = MapSet(@, h, obj), !.fresh = h]
Alloc(s, obj) == AllocAt(s, obj, FreeHandle(s, obj.kind, obj.id))
LastHandle(s) == s.fresh

\* Objects still reachable from the component: through a registry, the
\* selection, the outline helper, the gizmo, or a scene-graph group.
Reachable(s) ==
  Range(s.primitiveMeshes) \cup Range(s.importedObjects)
    \cup Range(s.lightObjects) \cup Range(s.sceneLights)
    \cup {s.selectedObject, s.selectionHelper, s.gizmoObject}
    \cup {h \in DOMAIN s.heap : s.heap[h].parent # "none"}
collectGarbage(s) ==
  [s EXCEPT !.heap = [h \in DOMAIN s.heap \cap Reachable(s) |-> s.heap[h]],
            !.fresh = NoObject]

groupAdd(s, group, h) == [s EXCEPT !.heap[h].parent = group]
groupRemove(s, h) == [s EXCEPT !.heap[h].parent = "none"]
disposeObject3D(s, h) == [s EXCEPT !.heap[h].disposed = TRUE]

\* ------------------------------------------------------------- selection
updateSelectionHelper(s, object) == [s EXCEPT !.selectionHelper = object]

selectObject(s, object, objectId, primitive, light) ==
  LET s1 == [s EXCEPT !.selectedObject = object,
                      !.currentSelectedId = objectId,
                      !.isPrimitive = primitive,
                      !.isLight = light]
      s2 == updateSelectionHelper(s1, object)
  IN IF s2.mounted THEN [s2 EXCEPT !.gizmoObject = object] ELSE s2

\* emit('select-object', ...) reaches EditorWorkspace.handleSelectObject.
emitSelectObject(s, objectId, primitive, light) ==
  [s EXCEPT !.wsSelectedObjectId = objectId,
            !.wsSelectedIsPrimitive = primitive,
            !.wsSelectedIsLight = light]

\* ---------------------------------------------------------------- display
\* Variant that adds an ambient light without looking for one.
applyMaterialsForLightingAlwaysAdds(s, hasLights) ==
  [s EXCEPT
     !.heap = [h \in DOMAIN s.heap |->
                 IF h \in MeshObjects(s)
                 THEN [s.heap[h] EXCEPT !.lit = hasLights, !.opacity = 100,
                                        !.transparent = FALSE,
                                        !.wireframe = FALSE]
                 ELSE s.heap[h]],
     !.ambientLights = IF hasLights THEN @ + 1 ELSE 0]

applyMaterialsForLighting(s, hasLights) ==
  LET meshes == MeshObjects(s)
  IN [s EXCEPT
        !.heap = [h \in DOMAIN s.heap |->
                    IF h \in meshes
                    THEN [s.heap[h] EXCEPT
                            !.lit = hasLights,
                            !.opacity = 100,
                            !.transparent = FALSE,
                            !.wireframe = FALSE,
                            !.color = IF @ # NoColor THEN @
                                      ELSE IF s.heap[h].kind = "primitive"
                                      THEN PRIMITIVE_COLOR
                                      ELSE IMPORTED_DEFAULT_COLOR]
                    ELSE s.heap[h]],
        !.ambientLights = IF hasLights
                          THEN (IF @ = 0 THEN 1 ELSE @)
                          ELSE 0]

\* originalColor is NoColor where the caller passes none.
applyModeToMaterial(mat, isWireframe, originalColor) ==
  IF isWireframe
  THEN [mat EXCEPT !.wireframe = FALSE, !.transparent = TRUE, !.opacity = 3]
  ELSE [mat EXCEPT !.wireframe = FALSE, !.transparent = FALSE,
                   !.opacity = 100,
                   !.color = IF originalColor # NoColor THEN originalColor
                             ELSE PRIMITIVE_COLOR]

applyDisplayMode(s, mode) ==
  LET meshes == MeshObjects(s)
  IN [s EXCEPT
        !.heap = [h \in DOMAIN s.heap |->
                    IF h \in meshes
                    THEN applyModeToMaterial(
                           s.heap[h], mode = "wireframe",
                           IF h \in Range(s.primitiveMeshes)
                           THEN PRIMITIVE_COLOR ELSE NoColor)
                    ELSE s.heap[h]]]

\* Variant that draws edges only when the polygon-edges toggle is on.
doUpdatePolygonEdgesDisplayToggleOnly(s) ==
  [s EXCEPT !.edgeHelpers =
     IF ~s.showPolygonEdges THEN {}
     ELSE IF s.selectedObjectId = Null \/ s.selectedIsLight
     THEN MeshObjects(s)
     ELSE IF s.selectedIsPrimitive
     THEN {s.primitiveMeshes[k] :
             k \in DOMAIN s.primitiveMeshes \cap {s.selectedObjectId}}
     ELSE {s.importedObjects[k] :
             k \in DOMAIN s.importedObjects \cap {s.selectedObjectId}}]

\* The edge overlay: the set of meshes that have a line set in edgeHelpers.
doUpdatePolygonEdgesDisplay(s) ==
  LET showEdges == s.displayMode = "wireframe" \/ s.showPolygonEdges
      hasSelection == s.selectedObjectId # Null /\ ~s.selectedIsLight
      showAll == s.displayMode = "wireframe" \/ ~hasSelection
      lines ==
        IF ~showEdges THEN {}
        ELSE IF showAll THEN MeshObjects(s)
        ELSE IF s.selectedIsPrimitive
             THEN (IF s.selectedObjectId \in DOMAIN s.primitiveMeshes
                   THEN {s.primitiveMeshes[s.selectedObjectId]} ELSE {})
             ELSE (IF s.selectedObjectId \in DOMAIN s.importedObjects
                   THEN {s.importedObjects[s.selectedObjectId]} ELSE {})
  IN [s EXCEPT !.edgeHelpers = lines]

\* Observation: an overlay helper has returned; what it was given and the
\* meshes its group now holds a child for.  A call that was asked to show
\* nothing and left its group empty is not recorded.
observeOverlay(s, fn, show, shown) ==
  IF ~show /\ s.displayMode = "solid" /\ shown = {} THEN s ELSE
  [s EXCEPT !.overlayCalls = @ \cup
     {[fn |-> fn, displayMode |-> s.displayMode, show |-> show,
       selectedObjectId |-> s.selectedObjectId,
       selectedIsPrimitive |-> s.selectedIsPrimitive,
       selectedIsLight |-> s.selectedIsLight,
       primitiveMeshes |-> s.primitiveMeshes,
       importedObjects |-> s.importedObjects,
       lightObjects |-> s.lightObjects,
       shown |-> shown]}]
observeEdges(s) == observeOverlay(s, "edges", s.showPolygonEdges, s.edgeHelpers)
observeVertices(s) ==
  observeOverlay(s, "vertices", s.showVertices, s.vertexHelpers)

updatePolygonEdgesDisplay(s) == observeEdges(doUpdatePolygonEdgesDisplay(s))

\* Variant that lets a selected light scope the overlay.
doUpdateVerticesDisplayAnySelection(s) ==
  [s EXCEPT !.vertexHelpers =
     IF ~s.showVertices THEN {}
     ELSE IF s.selectedObjectId = Null THEN MeshObjects(s)
     ELSE IF s.selectedIsPrimitive
     THEN {s.primitiveMeshes[k] :
             k \in DOMAIN s.primitiveMeshes \cap {s.selectedObjectId}}
     ELSE {s.importedObjects[k] :
             k \in DOMAIN s.importedObjects \cap {s.selectedObjectId}}]

\* The vertex overlay: the set of meshes that have a point set.
doUpdateVerticesDisplay(s) ==
  LET hasSelection == s.selectedObjectId # Null /\ ~s.selectedIsLight
      points ==
        IF ~s.showVertices THEN {}
        ELSE IF hasSelection
        THEN IF s.selectedIsPrimitive
             THEN (IF s.selectedObjectId \in DOMAIN s.primitiveMeshes
                   THEN {s.primitiveMeshes[s.selectedObjectId]} ELSE {})
             ELSE (IF s.selectedObjectId \in DOMAIN s.importedObjects
                   THEN {s.importedObjects[s.selectedObjectId]} ELSE {})
        ELSE MeshObjects(s)
  IN [s EXCEPT !.vertexHelpers = points]

updateVerticesDisplay(s) == observeVertices(doUpdateVerticesDisplay(s))

hasLights(s) == Len(lightsOf(s)) > 0

\* Variant that leaves the materials as they are.
refreshSceneDisplayKeepsMaterials(s) ==
  updatePolygonEdgesDisplay(
    updateVerticesDisplay(applyDisplayMode(s, s.displayMode)))

refreshSceneDisplay(s) ==
  updatePolygonEdgesDisplay(
    updateVerticesDisplay(
      applyDisplayMode(applyMaterialsForLighting(s, hasLights(s)),
                       s.displayMode)))

markPolygonCountDirty(s) == [s EXCEPT !.polygonCountDirty = TRUE]

\* A ref of the toolbar's v-model is assigned; its watcher is queued if the
\* value changed.
setDisplayMode(s, mode) ==
  IF s.displayMode = mode THEN s
  ELSE [s EXCEPT !.displayMode = mode, !.queued = @ \cup {"displayMode"}]
setShowPolygonEdges(s, value) ==
  IF s.showPolygonEdges = value THEN s
  ELSE [s EXCEPT !.showPolygonEdges = value,
                 !.queued = @ \cup {"showPolygonEdges"}]
setShowVertices(s, value) ==
  IF s.showVertices = value THEN s
  ELSE [s EXCEPT !.showVertices = value, !.queued = @ \cup {"showVertices"}]

\* Observation: the colours of the meshes as the display mode leaves solid,
\* and the two toggles as the mode changes.
observeSwitch(s, mode) ==
  [(IF s.displayMode = "solid" /\ mode = "wireframe"
    THEN [s EXCEPT !.solidColors =
            [h \in MeshObjects(s) |-> s.heap[h].color]]
    ELSE s)
   EXCEPT !.switched = [showPolygonEdges |-> s.showPolygonEdges,
                        showVertices |-> s.showVertices]]

\* Variant that refreshes the display only on entering wireframe.
onDisplayModeWireframeOnly(s) ==
  IF s.displayMode = "wireframe"
  THEN refreshSceneDisplay(setShowVertices(setShowPolygonEdges(s, FALSE),
                                           FALSE))
  ELSE s

\* Variant that leaves the two toggles as they are.
onDisplayModeKeepsToggles(s) == refreshSceneDisplay(s)

\* watch(displayMode, ...)
onDisplayMode(s) ==
  refreshSceneDisplay(
    IF s.displayMode = "wireframe"
    THEN setShowVertices(setShowPolygonEdges(s, FALSE), FALSE)
    ELSE s)


\* ------------------------------------------------- removal (all three syncs)
\* Variant of StaleKeys that finds nothing to remove.
StaleKeysNone(registry, activeIds) == {}

\* Keys of a registry that are no longer in the document slice.
StaleKeys(registry, activeIds) == DOMAIN registry \ activeIds

\* Observation: h is about to be taken out of the scene and disposed; note
\* it if the selection, the outline helper, the gizmo or the parent's
\* selection still refer to it.
observeDisposal(s, h) ==
  IF \/ s.selectedObject = h \/ s.selectionHelper = h \/ s.gizmoObject = h
     \/ s.currentSelectedId = s.heap[h].id
     \/ s.wsSelectedObjectId = s.heap[h].id
  THEN [s EXCEPT !.disposedWhileSelected = @ \cup {s.heap[h].id}]
  ELSE s

\* Observation: a removal loop cleared the selection for an entry of `kind`.
observeCleared(s, kind) == [s EXCEPT !.clearedKinds = @ \cup {kind}]

\* if (currentSelectedId.value === id) { selectObject(null, ...); emit(...) }
clearSelectionOf(s, id, h) ==
  IF s.currentSelectedId = id
  THEN emitSelectObject(
         selectObject(observeCleared(s, s.heap[h].kind),
                      NoObject, Null, FALSE, FALSE),
         Null, FALSE, FALSE)
  ELSE s

\* group.remove(object); disposeObject3D(object)
removeAndDispose(s, h) ==
  disposeObject3D(groupRemove(observeDisposal(s, h), h), h)

\* Variant of removeEntry that disposes first and clears the selection after.
removeEntryDisposeFirst(s, id, h) ==
  clearSelectionOf(removeAndDispose(s, h), id, h)

\* Variant that removes and disposes without looking at the selection.
removeEntryKeepsSelection(s, id, h) == removeAndDispose(s, h)

\* The body of a removal loop for one stale entry id -> h, up to the
\* registry's own delete.
removeEntry(s, id, h) ==
  removeAndDispose(clearSelectionOf(s, id, h), h)

\* ----------------------------------------------------------- primitives sync
\* A geometry is its shape and the least Y of its vertices, in 1/20 unit.
makeBoxGeometry == [shape |-> "box", minY |-> -10]
makeGeometryForPrimitive(type) ==
  CASE type = "box" -> makeBoxGeometry
    [] type = "sphere" -> [shape |-> "sphere", minY |-> -10]
    [] type = "cylinder" -> [shape |-> "cylinder", minY |-> -10]
    [] type = "cone" -> [shape |-> "cone", minY |-> -10]
    [] type = "torus" -> [shape |-> "torus", minY |-> -3]
    [] type = "plane" -> [shape |-> "plane", minY |-> 0]
    [] OTHER -> makeBoxGeometry

\* geom.index.count / 3 of the geometry made for the type; the sphere's
\* pole rows and the cone's side have one triangle per segment.
TrianglesOf(type) ==
  CASE type = "sphere" -> 1472
    [] type = "cylinder" -> 128
    [] type = "cone" -> 64
    [] type = "torus" -> 1536
    [] type = "plane" -> 2
    [] OTHER -> 12

makePrimitiveMesh(s, nodeId, primitiveType) ==
  Alloc(s, [NewObject("primitive", nodeId) EXCEPT
              !.geometry = makeGeometryForPrimitive(primitiveType),
              !.triangles = TrianglesOf(primitiveType)])

\* primitiveMeshes.delete(nodeId)
forgetPrimitive(s, nodeId) ==
  [s EXCEPT !.primitiveMeshes = MapDelete(@, nodeId)]

RECURSIVE removeStalePrimitives(_, _)
removeStalePrimitives(s, stale) ==
  IF stale = {} THEN s
  ELSE removeStalePrimitives(
         forgetPrimitive(
           removeEntry(s, FirstKey(stale), s.primitiveMeshes[FirstKey(stale)]),
           FirstKey(stale)),
         stale \ {FirstKey(stale)})

\* primitiveMeshes.set(node.id, mesh); primitiveGroup.add(mesh), for the mesh
\* just made in a.
registerPrimitive(a, nodeId) ==
  groupAdd([a EXCEPT !.primitiveMeshes = MapSet(@, nodeId, LastHandle(a))],
           "primitiveGroup", LastHandle(a))

\* Variant that makes a mesh for the node whether or not it has one.
ensurePrimitiveAlways(s, node) ==
  registerPrimitive(makePrimitiveMesh(s, node.id, node.primitive), node.id)
\* if (!mesh) { mesh = makePrimitiveMesh(...); set; add }
ensurePrimitive(s, node) ==
  IF node.id \in DOMAIN s.primitiveMeshes THEN s
  ELSE registerPrimitive(makePrimitiveMesh(s, node.id, node.primitive),
                         node.id)

\* Variant that places the mesh at the node's position as it is.
posePrimitiveNoOffset(s, node) ==
  [s EXCEPT
     !.heap[s.primitiveMeshes[node.id]].position = node.position,
     !.heap[s.primitiveMeshes[node.id]].scale = node.scale,
     !.heap[s.primitiveMeshes[node.id]].rotation = node.rotation]

\* The node's mesh takes the node's pose.
posePrimitive(s, node) ==
  [s EXCEPT
     !.heap[s.primitiveMeshes[node.id]].position =
        node.position + getPrimitiveYOffset(node.primitive),
     !.heap[s.primitiveMeshes[node.id]].scale = node.scale,
     !.heap[s.primitiveMeshes[node.id]].rotation = node.rotation]

placeNode(s, node) == posePrimitive(ensurePrimitive(s, node), node)

RECURSIVE placeNodes(_, _)
placeNodes(s, i) ==
  IF i > Len(s.nodes) THEN s
  ELSE placeNodes(placeNode(s, s.nodes[i]), i + 1)

\* The re-attachment of the selection at the end of syncPrimitiveNodes.
reselectPrimitive(s) ==
  IF /\ s.selectedObject # NoObject /\ s.currentSelectedId # Null
     /\ s.isPrimitive
     /\ s.currentSelectedId \in DOMAIN s.primitiveMeshes
  THEN selectObject(s, s.primitiveMeshes[s.currentSelectedId],
                    s.currentSelectedId, TRUE, FALSE)
  ELSE s

syncPrimitiveNodes(s) ==
  reselectPrimitive(
    refreshSceneDisplay(
      markPolygonCountDirty(
        placeNodes(
          removeStalePrimitives(s, StaleKeys(s.primitiveMeshes, Ids(s.nodes))),
          1))))

\* --------------------------------------------------------------- lights sync
forgetBillboard(s, id) == [s EXCEPT !.lightObjects = MapDelete(@, id)]

RECURSIVE removeStaleBillboards(_, _)
removeStaleBillboards(s, stale) ==
  IF stale = {} THEN s
  ELSE removeStaleBillboards(
         forgetBillboard(
           removeEntry(s, FirstKey(stale), s.lightObjects[FirstKey(stale)]),
           FirstKey(stale)),
         stale \ {FirstKey(stale)})

forgetSceneLight(s, id) == [s EXCEPT !.sceneLights = MapDelete(@, id)]

RECURSIVE removeStaleSceneLights(_, _)
removeStaleSceneLights(s, stale) ==
  IF stale = {} THEN s
  ELSE removeStaleSceneLights(
         forgetSceneLight(
           removeAndDispose(s, s.sceneLights[FirstKey(stale)]),
           FirstKey(stale)),
         stale \ {FirstKey(stale)})

makeLightBillboard(s, lightId) == Alloc(s, NewObject("billboard", lightId))

registerBillboard(a, lightId) ==
  groupAdd([a EXCEPT !.lightObjects = MapSet(@, lightId, LastHandle(a))],
           "lightGroup", LastHandle(a))

registerSceneLight(a, lightId) ==
  groupAdd([a EXCEPT !.sceneLights = MapSet(@, lightId, LastHandle(a))],
           "sceneLightsGroup", LastHandle(a))

ensureBillboard(s, light) ==
  IF light.id \in DOMAIN s.lightObjects THEN s
  ELSE registerBillboard(makeLightBillboard(s, light.id), light.id)

ensureSceneLight(s, light) ==
  IF light.id \in DOMAIN s.sceneLights THEN s
  ELSE registerSceneLight(Alloc(s, NewObject("dirlight", light.id)), light.id)

\* The billboard and the directional light take the light's position.
poseLight(s, light) ==
  [s EXCEPT !.heap[s.lightObjects[light.id]].position = light.position,
            !.heap[s.sceneLights[light.id]].position = light.position]

placeLight(s, light) ==
  poseLight(ensureSceneLight(ensureBillboard(s, light), light), light)

RECURSIVE placeLights(_, _)
placeLights(s, i) ==
  IF i > Len(lightsOf(s)) THEN s
  ELSE placeLights(placeLight(s, lightsOf(s)[i]), i + 1)

\* Variant that resolves the materials and leaves the display mode alone.
relightMaterialsOnly(s) == applyMaterialsForLighting(s, Len(lightsOf(s)) > 0)

\* The tail of syncLights: materials, display mode, selection re-attachment.
relight(s) ==
  applyDisplayMode(applyMaterialsForLighting(s, Len(lightsOf(s)) > 0),
                   s.displayMode)

reselectLight(s) ==
  IF /\ s.selectedObject # NoObject /\ s.currentSelectedId # Null
     /\ s.isLight
     /\ s.currentSelectedId \in DOMAIN s.lightObjects
  THEN selectObject(s, s.lightObjects[s.currentSelectedId],
                    s.currentSelectedId, FALSE, TRUE)
  ELSE s

\* The second removal loop and everything after it.
syncSceneLights(s) ==
  reselectLight(
    relight(
      placeLights(
        removeStaleSceneLights(s, StaleKeys(s.sceneLights, Ids(lightsOf(s)))),
        1)))

syncLights(s) ==
  syncSceneLights(
    removeStaleBillboards(s, StaleKeys(s.lightObjects, Ids(lightsOf(s)))))

\* ------------------------------------------------------ imported assets sync
\* A pass of syncImportedAssets suspended at `await loadImportedModelObject`:
\*   asset  the id of the asset being decoded,
\*   idx    the for-of iterator's position,
\*   live   whether the array being iterated is still props.importedAssets,
\*   arr    the iterated array's contents once it no longer is.
Pass(arr, live, idx, asset) ==
  [arr |-> IF live THEN <<>> ELSE arr, live |-> live, idx |-> idx,
   asset |-> asset]

skipImport(s, assetId) ==
  assetId \in DOMAIN s.importedObjects \/ assetId \in s.loadingImports

forgetImported(s, assetId) ==
  [s EXCEPT !.importedObjects = MapDelete(@, assetId)]

RECURSIVE removeStaleImported(_, _)
removeStaleImported(s, stale) ==
  IF stale = {} THEN s
  ELSE removeStaleImported(
         forgetImported(
           removeEntry(s, FirstKey(stale), s.importedObjects[FirstKey(stale)]),
           FirstKey(stale)),
         stale \ {FirstKey(stale)})

\* The array a pass iterates.
Iterated(s, arr, live) == IF live THEN s.importedAssets ELSE arr

\* loadingImports.add(asset.id); await loadImportedModelObject(asset)
awaitDecode(s, arr, live, i, assetId) ==
  [s EXCEPT !.loadingImports = @ \cup {assetId},
            !.passes = Append(@, Pass(arr, live, i, assetId))]

\* The for-of loop from position i: runs to the next await or to the end of
\* the pass (the outer finally).
RECURSIVE importLoop(_, _, _, _)
importLoop(s, arr, live, i) ==
  IF i > Len(Iterated(s, arr, live))
  THEN [s EXCEPT !.isSyncingImports = FALSE]
  ELSE IF skipImport(s, Iterated(s, arr, live)[i].id)
  THEN importLoop(s, arr, live, i + 1)
  ELSE awaitDecode(s, arr, live, i, Iterated(s, arr, live)[i].id)

\* Variant of the loop without the in-flight check.
RECURSIVE importLoopUnguarded(_, _)
importLoopUnguarded(s, i) ==
  IF i > Len(s.importedAssets) THEN [s EXCEPT !.isSyncingImports = FALSE]
  ELSE IF s.importedAssets[i].id \in DOMAIN s.importedObjects
  THEN importLoopUnguarded(s, i + 1)
  ELSE awaitDecode(s, <<>>, TRUE, i, s.importedAssets[i].id)

\* if (removedAny) { markPolygonCountDirty(); refreshSceneDisplay() }
afterRemoval(s, removedAny) ==
  IF removedAny THEN refreshSceneDisplay(markPolygonCountDirty(s)) ELSE s

\* The body of the outer try, up to the first await.
startPass(s, stale) ==
  importLoop(afterRemoval(removeStaleImported(s, stale), stale # {}),
             <<>>, TRUE, 1)

\* Variant of syncImportedAssets with neither the re-entrancy flag nor the
\* in-flight check: every unregistered asset of the list is decoded.
syncImportedAssetsUnguarded(s) ==
  importLoopUnguarded([s EXCEPT !.isSyncingImports = TRUE], 1)

\* Variant without the re-entrancy flag: every invocation runs a pass.
syncImportedAssetsReentrant(s) ==
  startPass([s EXCEPT !.isSyncingImports = TRUE],
            StaleKeys(s.importedObjects, Ids(s.importedAssets)))

\* The pass up to its first await.
syncImportedAssets(s) ==
  IF s.isSyncingImports THEN s
  ELSE startPass([s EXCEPT !.isSyncingImports = TRUE],
                 StaleKeys(s.importedObjects, Ids(s.importedAssets)))

\* importedObjects.set(asset.id, model); importedGroup.add(model), for the
\* model just decoded in a.
registerImported(a, assetId) ==
  groupAdd([a EXCEPT !.importedObjects = MapSet(@, assetId, LastHandle(a))],
           "importedGroup", LastHandle(a))

\* The selection props name the asset just decoded: attach the selection.
selectIfRequested(s, assetId) ==
  IF /\ s.selectedObjectId # Null /\ ~s.selectedIsPrimitive
     /\ s.selectedObjectId = assetId
  THEN selectObject(s, s.importedObjects[assetId], assetId, FALSE, FALSE)
  ELSE s

\* finally { loadingImports.delete(asset.id) }, then the loop goes on.
finishImport(s, p) ==
  importLoop([s EXCEPT !.loadingImports = @ \ {p.asset}],
             p.arr, p.live, p.idx + 1)

\* The triangles of the meshes of a decoded model: the sample files hold
\* one quad.
FileTriangles == 2

\* The pass p resumes with the decoded model.
resumeLoaded(s, p, color, wireframe) ==
  finishImport(
    selectIfRequested(
      refreshSceneDisplay(
        markPolygonCountDirty(
          registerImported(
            Alloc(s, [NewObject("imported", p.asset) EXCEPT
                        !.color = color, !.wireframe = wireframe,
                        !.triangles = FileTriangles]),
            p.asset))),
      p.asset),
    p)

\* Observation: the decode of assetId has rejected.
observeRejected(s, assetId) == [s EXCEPT !.rejected = @ \cup {assetId}]

\* console.error(...)
reportImportError(s, assetId) == [s EXCEPT !.importErrors = @ \cup {assetId}]

\* Variant of resumeFailed without the inner try: the rejection leaves the
\* loop at once, through the outer finally only.
resumeFailedUncaught(s, p) == [s EXCEPT !.isSyncingImports = FALSE]

\* The pass p resumes with the decode's rejection.
resumeFailed(s, p) == finishImport(reportImportError(s, p.asset), p)

\* --------------------------------------------------- selection props watcher
onSelectionProps(s) ==
  IF s.selectedObjectId = Null
  THEN selectObject(s, NoObject, Null, FALSE, FALSE)
  ELSE IF s.selectedIsPrimitive
  THEN (IF s.selectedObjectId \in DOMAIN s.primitiveMeshes
        THEN selectObject(s, s.primitiveMeshes[s.selectedObjectId],
                          s.selectedObjectId, TRUE, FALSE)
        ELSE selectObject(s, NoObject, Null, FALSE, FALSE))
  ELSE IF s.selectedIsLight
  THEN (IF s.selectedObjectId \in DOMAIN s.lightObjects
        THEN selectObject(s, s.lightObjects[s.selectedObjectId],
                          s.selectedObjectId, FALSE, TRUE)
        ELSE selectObject(s, NoObject, Null, FALSE, FALSE))
  ELSE (IF s.selectedObjectId \in DOMAIN s.importedObjects
        THEN selectObject(s, s.importedObjects[s.selectedObjectId],
                          s.selectedObjectId, FALSE, FALSE)
        ELSE selectObject(s, NoObject, Null, FALSE, FALSE))

\* The parent re-renders: the selection props take the workspace refs' values
\* and, if any changed, the selection watcher runs.
flushSelectionProps(s) ==
  IF <<s.selectedObjectId, s.selectedIsPrimitive, s.selectedIsLight>> =
     <<s.wsSelectedObjectId, s.wsSelectedIsPrimitive, s.wsSelectedIsLight>>
  THEN s
  ELSE onSelectionProps(
         [s EXCEPT !.selectedObjectId = s.wsSelectedObjectId,
                   !.selectedIsPrimitive = s.wsSelectedIsPrimitive,
                   !.selectedIsLight = s.wsSelectedIsLight])

\* The scheduler flush that follows a handler: the queued watchers run in
\* the order they were created; the selection props come last, with the
\* parent's re-render.  An unmounted component's watchers are stopped.
runSceneWatchers(s) ==
  IF "sceneData" \in s.queued THEN syncLights(syncPrimitiveNodes(s)) ELSE s
runImportedWatcher(s) ==
  IF "importedAssets" \in s.queued THEN syncImportedAssets(s) ELSE s
runDisplayModeWatcher(s) ==
  IF "displayMode" \in s.queued THEN onDisplayMode(s) ELSE s
runShowVerticesWatcher(s) ==
  IF "showVertices" \in s.queued THEN updateVerticesDisplay(s) ELSE s
runShowPolygonEdgesWatcher(s) ==
  IF "showPolygonEdges" \in s.queued THEN updatePolygonEdgesDisplay(s) ELSE s
emptyQueue(s) == [s EXCEPT !.queued = {}]

flushJobs(s) ==
  IF ~s.mounted THEN emptyQueue(s)
  ELSE flushSelectionProps(
         emptyQueue(
           runShowPolygonEdgesWatcher(
             runShowVerticesWatcher(
               runDisplayModeWatcher(
                 runImportedWatcher(runSceneWatchers(s)))))))


\* ------------------------------------------------------------------ picking
KeyOf(registry, h) == CHOOSE k \in DOMAIN registry : registry[k] = h

Pickable(s) ==
  Range(s.primitiveMeshes) \cup Range(s.importedObjects)
    \cup Range(s.lightObjects)

\* pickObjectAt with the ray's nearest hit resolved to its registry object
\* (NoObject: the ray hit nothing).
pickObjectAt(s, hit) ==
  IF hit = NoObject
  THEN selectObject(emitSelectObject(s, Null, FALSE, FALSE),
                    NoObject, Null, FALSE, FALSE)
  ELSE IF hit \in Range(s.primitiveMeshes)
  THEN LET id == KeyOf(s.primitiveMeshes, hit)
       IN selectObject(emitSelectObject(s, id, TRUE, FALSE),
                       hit, id, TRUE, FALSE)
  ELSE IF hit \in Range(s.importedObjects)
  THEN LET id == KeyOf(s.importedObjects, hit)
       IN selectObject(emitSelectObject(s, id, FALSE, FALSE),
                       hit, id, FALSE, FALSE)
  ELSE IF hit \in Range(s.lightObjects)
  THEN LET id == KeyOf(s.lightObjects, hit)
       IN selectObject(emitSelectObject(s, id, FALSE, TRUE),
                       hit, id, FALSE, TRUE)
  ELSE s

\* ------------------------------------------------------------- scene editor
addPrimitive(s, primitive) ==
  [s EXCEPT !.nodeSeq = @ + 1,
            !.nodes = Append(@, [id |-> <<"node", s.nodeSeq + 1>>,
                                 primitive |-> primitive,
                                 position |-> 0, scale |-> 20,
                                 rotation |-> 0])]

deleteNode(s, nodeId) ==
  [s EXCEPT !.nodes = SelectSeq(@, LAMBDA n : n.id # nodeId)]

addLight(s) ==
  [withLights(s, Append(lightsOf(s), [id |-> <<"light", s.lightSeq + 1>>,
                                      position |-> 40]))
     EXCEPT !.lightSeq = @ + 1]

\* Variant that returns a document without lights as it is.
deleteLightKeepsMissing(s, lightId) ==
  IF "lights" \in DOMAIN s
  THEN [s EXCEPT !.lights = SelectSeq(@, LAMBDA l : l.id # lightId)]
  ELSE s

deleteLight(s, lightId) ==
  withLights(s, SelectSeq(lightsOf(s), LAMBDA l : l.id # lightId))

updateNodePosition(s, nodeId, position) ==
  [s EXCEPT !.nodes = [i \in DOMAIN @ |->
                         IF @[i].id = nodeId
                         THEN [@[i] EXCEPT !.position = position] ELSE @[i]]]

\* Variant that writes the scale to every node.
updateNodeScaleOfAll(s, nodeId, scale) ==
  [s EXCEPT !.nodes = [i \in DOMAIN @ |-> [@[i] EXCEPT !.scale = scale]]]

updateNodeScale(s, nodeId, scale) ==
  [s EXCEPT !.nodes = [i \in DOMAIN @ |->
                         IF @[i].id = nodeId
                         THEN [@[i] EXCEPT !.scale = scale] ELSE @[i]]]

updateNodeRotation(s, nodeId, rotation) ==
  [s EXCEPT !.nodes = [i \in DOMAIN @ |->
                         IF @[i].id = nodeId
                         THEN [@[i] EXCEPT !.rotation = rotation] ELSE @[i]]]

updateLightPosition(s, lightId, position) ==
  withLights(s, [i \in DOMAIN lightsOf(s) |->
                   IF lightsOf(s)[i].id = lightId
                   THEN [lightsOf(s)[i] EXCEPT !.position = position]
                   ELSE lightsOf(s)[i]])

renameScene(s, name) == [s EXCEPT !.sceneName = name]

\* createScene: makeId('scene') is a new id on every call.
createScene(s) ==
  [s EXCEPT !.sceneSeq = @ + 1,
            !.sceneId = <<"scene", s.sceneSeq + 1>>,
            !.sceneName = "Untitled Scene",
            !.nodes = <<>>,
            !.lights = <<>>]

\* ------------------------------------------------------- scene repository
\* The requests issued to IndexedDB and not yet completed, in issue order.
\* Requests on one object store complete in the order they were issued.
Tables == {"scenes", "modelAssets"}

issue(s, request) == [s EXCEPT !.requests = Append(@, request)]

\* db.scenes.put: the row with the scene's id is added or replaced.
put(table, scene) ==
  [id \in DOMAIN table \cup {scene.id} |->
     IF id = scene.id THEN scene ELSE table[id]]

\* A write that nothing but its caller's return awaits. When the database
\* is not deferred the write is complete before the next event.
write(s, request) ==
  IF s.idbDeferred THEN issue(s, request)
  ELSE IF request.op = "put"
  THEN [s EXCEPT !.scenes = put(@, request.scene)]
  ELSE [s EXCEPT !.modelAssets = SelectSeq(@, LAMBDA a : a.id # request.id)]

\* DexieSceneRepository.save: db.scenes.put(structuredClone(scene)); `then`
\* names what awaits the put ("hydrate" or nothing).
save(s, scene, then) ==
  LET request == [table |-> "scenes", op |-> "put", scene |-> scene,
                  then |-> then]
  IN IF then = "nothing" THEN write(s, request) ELSE issue(s, request)

\* DexieSceneRepository.getById, issued by hydrate.
getById(s, id) ==
  issue(s, [table |-> "scenes", op |-> "get", id |-> id])

\* ------------------------------------------------------------- editor store
\* activeScene.value = ...: the deep watchers on props.sceneData are queued.
setActiveScene(s) == [s EXCEPT !.queued = @ \cup {"sceneData"}]

\* activeScene.value as the document it is.
activeSceneOf(s) ==
  [id |-> s.sceneId, name |-> s.sceneName, nodes |-> s.nodes,
   lights |-> s.lights]

\* JSON.parse(JSON.stringify(toRaw(activeScene.value))): the ids, names and
\* (finite) numbers of the document, arrays and objects rebuilt.
makeSceneSnapshot(s) ==
  [id |-> s.sceneId, name |-> s.sceneName,
   nodes |-> [i \in DOMAIN s.nodes |->
                [f \in DOMAIN s.nodes[i] |-> s.nodes[i][f]]],
   lights |-> [i \in DOMAIN s.lights |->
                 [f \in DOMAIN s.lights[i] |-> s.lights[i][f]]]]

HydrateReading(s) ==
  \E i \in DOMAIN s.requests : s.requests[i].op = "get"

\* An edit is recorded: made at all, and made while hydrate awaits getById.
observeEdit(s) ==
  [s EXCEPT !.edited = TRUE,
            !.racing = @ \/ HydrateReading(s),
            !.unawaited = @ \/ \E i \in DOMAIN s.requests :
                                  s.requests[i].op = "put"]

\* hydrate's getById has returned: an edit made while it was awaited has
\* been overtaken if the row was found.
observeHydrate(s, found) ==
  [s EXCEPT !.hydrated = [found |-> found],
            !.overlapped = @ \/ (found /\ s.racing),
            !.racing = @ /\ HydrateReading(s)]

\* await sceneRepository.save(makeSceneSnapshot()) at the end of an edit.
saveSnapshot(s) == save(observeEdit(s), makeSceneSnapshot(s), "nothing")

addPrimitiveNode(s, type) ==
  saveSnapshot(setActiveScene(addPrimitive(s, type)))
addLightNode(s) == saveSnapshot(setActiveScene(addLight(s)))
deleteNodeById(s, nodeId) ==
  saveSnapshot(setActiveScene(deleteNode(s, nodeId)))
deleteLightById(s, lightId) ==
  saveSnapshot(setActiveScene(deleteLight(s, lightId)))
updateLightPositionById(s, lightId, position) ==
  saveSnapshot(setActiveScene(updateLightPosition(s, lightId, position)))
updateNodePositionById(s, nodeId, position) ==
  saveSnapshot(setActiveScene(updateNodePosition(s, nodeId, position)))
updateNodeScaleById(s, nodeId, scale) ==
  saveSnapshot(setActiveScene(updateNodeScale(s, nodeId, scale)))
updateNodeRotationById(s, nodeId, rotation) ==
  saveSnapshot(setActiveScene(updateNodeRotation(s, nodeId, rotation)))
renameActiveScene(s, name) ==
  saveSnapshot(setActiveScene(renameScene(s, name)))

\* A new store instance (defineStore's setup): activeScene is a new scene,
\* nothing awaits the requests of the instance before it.
useEditorStore(s, committed) ==
  setActiveScene(createScene(
    [s EXCEPT !.importedAssets = <<>>,
              !.isHydrating = FALSE,
              !.edited = FALSE, !.racing = FALSE, !.overlapped = FALSE,
              !.unawaited = FALSE,
              !.requests =
                IF committed
                THEN LET writes == SelectSeq(@, LAMBDA r : r.op = "put")
                     IN [i \in DOMAIN writes |->
                           [writes[i] EXCEPT !.then = "nothing"]]
                ELSE <<>>]))

\* hydrate up to its first await.
hydrate(s) == getById([s EXCEPT !.isHydrating = TRUE], s.sceneId)

\* { ...storedScene, lights: storedScene.lights ?? [] }
loadStoredScene(storedScene) == withLights(storedScene, lightsOf(storedScene))

\* hydrate after the stored assets are read.
hydrateAssets(s) ==
  [s EXCEPT
     !.importedAssets = [i \in DOMAIN s.modelAssets |->
                           [id |-> s.modelAssets[i].id]],
     !.queued = @ \cup {"importedAssets"},
     !.passes = [k \in DOMAIN s.passes |->
                   IF s.passes[k].live
                   THEN [s.passes[k] EXCEPT !.live = FALSE,
                                            !.arr = s.importedAssets]
                   ELSE s.passes[k]],
     !.isHydrating = FALSE]

\* hydrate from `clearTrackedObjectUrls()` to its await of getAll.
hydrateGetAll(s) == issue(s, [table |-> "modelAssets", op |-> "getAll"])

\* hydrate resumed with the row that getById found.
hydrateFound(s, storedScene) ==
  LET loaded == loadStoredScene(storedScene)
  IN hydrateGetAll(
       setActiveScene([observeHydrate(s, TRUE) EXCEPT !.sceneId = loaded.id,
                                !.sceneName = loaded.name,
                                !.nodes = loaded.nodes,
                                !.lights = loaded.lights]))

\* hydrate resumed with undefined: getById found no row.
hydrateMissing(s) ==
  save(observeHydrate(s, FALSE), makeSceneSnapshot(s), "hydrate")

\* Variant in which the request issued last completes first.
LastRequest(s, table) ==
  CHOOSE i \in DOMAIN s.requests :
    /\ s.requests[i].table = table
    /\ \A j \in (i + 1)..Len(s.requests) : s.requests[j].table # table

\* The first pending request on `table` completes and what awaits it resumes.
FirstRequest(s, table) ==
  CHOOSE i \in DOMAIN s.requests :
    /\ s.requests[i].table = table
    /\ \A j \in 1..(i - 1) : s.requests[j].table # table

completeRequest(s, table) ==
  LET i == FirstRequest(s, table)
      r == s.requests[i]
      t == [s EXCEPT !.requests = [j \in 1..(Len(@) - 1) |->
                                     IF j < i THEN @[j] ELSE @[j + 1]]]
  IN CASE r.op = "put" ->
            LET u == [t EXCEPT !.scenes = put(@, r.scene)]
            IN IF r.then = "hydrate" THEN hydrateGetAll(u) ELSE u
       [] r.op = "get" ->
            IF r.id \in DOMAIN s.scenes
            THEN hydrateFound(t, s.scenes[r.id]) ELSE hydrateMissing(t)
       [] r.op = "getAll" -> hydrateAssets(t)
       [] r.op = "delete" ->
            [t EXCEPT !.modelAssets = SelectSeq(@, LAMBDA a : a.id # r.id)]

\* importModelFiles with one supported file, from the completion of
\* saveMany: the asset is stored, and it is pushed onto the array that
\* props.importedAssets is.
importModelFiles(s) ==
  [s EXCEPT !.assetSeq = @ + 1,
            !.modelAssets = Append(@, [id |-> <<"asset", s.assetSeq + 1>>]),
            !.importedAssets = Append(@, [id |-> <<"asset", s.assetSeq + 1>>]),
            !.queued = @ \cup {"importedAssets"}]

\* deleteImportedModel: props.importedAssets becomes a new, filtered array;
\* a suspended pass keeps iterating the array it started on.
deleteImportedModel(s, assetId) ==
  [write(s, [table |-> "modelAssets", op |-> "delete", id |-> assetId])
   EXCEPT
     !.importedAssets = SelectSeq(@, LAMBDA a : a.id # assetId),
     !.queued = @ \cup {"importedAssets"},
     !.passes = [k \in DOMAIN s.passes |->
                   IF s.passes[k].live
                   THEN [s.passes[k] EXCEPT !.live = FALSE,
                                            !.arr = s.importedAssets]
                   ELSE s.passes[k]]]

\* -------------------------------------------------------- editor workspace
\* The three reactive maps of imported-model transforms, keyed here by
\* <<asset id, component>>.
handleUpdateImported(s, assetId, component, value) ==
  [s EXCEPT !.importedModelTransforms =
              MapSet(@, <<assetId, component>>, value)]

\* The EditorWorkspace handler bound to each event of the viewport.
handleEvent(s, event, id, value) ==
  CASE event = "update-node-position" -> updateNodePositionById(s, id, value)
    [] event = "update-node-rotation" -> updateNodeRotationById(s, id, value)
    [] event = "update-node-scale" -> updateNodeScaleById(s, id, value)
    [] event = "update-light-position" -> updateLightPositionById(s, id, value)
    [] event = "update-imported-position" ->
         handleUpdateImported(s, id, "position", value)
    [] event = "update-imported-rotation" ->
         handleUpdateImported(s, id, "rotation", value)
    [] event = "update-imported-scale" ->
         handleUpdateImported(s, id, "scale", value)

Intent(event, id, value) == [event |-> event, id |-> id, value |-> value]

\* Observation: the viewport emitted an edit intent.
observeEmit(s, event, id, value) ==
  [s EXCEPT !.emitted = Append(@, Intent(event, id, value))]

emit(s, event, id, value) ==
  handleEvent(observeEmit(s, event, id, value), event, id, value)

\* ------------------------------------------------------ gizmo and debounce
TransformModes == {"translate", "rotate", "scale"}

\* props.sceneData.nodes.find(...) ? getPrimitiveYOffset(node.primitive) : 0.5
yOffsetOf(s, id) ==
  IF id \in Ids(s.nodes)
  THEN getPrimitiveYOffset((CHOOSE n \in Range(s.nodes) : n.id = id).primitive)
  ELSE 10

emitPrimitiveChange(s, obj, id, mode) ==
  CASE mode = "translate" ->
         emit(s, "update-node-position", id, obj.position - yOffsetOf(s, id))
    [] mode = "rotate" -> emit(s, "update-node-rotation", id, obj.rotation)
    [] mode = "scale" -> emit(s, "update-node-scale", id, obj.scale)

\* Variant that emits the position in every mode.
emitLightChangeAnyMode(s, obj, id, mode) ==
  emit(s, "update-light-position", id, obj.position)

emitLightChange(s, obj, id, mode) ==
  IF mode = "translate"
  THEN emit(s, "update-light-position", id, obj.position)
  ELSE s

emitImportedChange(s, obj, id, mode) ==
  CASE mode = "translate" ->
         emit(s, "update-imported-position", id, obj.position)
    [] mode = "rotate" -> emit(s, "update-imported-rotation", id, obj.rotation)
    [] mode = "scale" -> emit(s, "update-imported-scale", id, obj.scale)

emitTransformChange(s) ==
  IF s.selectedObject = NoObject \/ s.currentSelectedId = Null \/ ~s.mounted
  THEN s
  ELSE IF s.isPrimitive
  THEN emitPrimitiveChange(s, s.heap[s.selectedObject], s.currentSelectedId,
                           s.transformMode)
  ELSE IF s.isLight
  THEN emitLightChange(s, s.heap[s.selectedObject], s.currentSelectedId,
                       s.transformMode)
  ELSE emitImportedChange(s, s.heap[s.selectedObject], s.currentSelectedId,
                          s.transformMode)

\* window.setTimeout / clearTimeout.  A new timer takes the least handle that
\* names no pending timer and is not the one the component still holds.
FreshTimer(s) ==
  CHOOSE h \in 1..(Cardinality(DOMAIN s.timers) + 2) :
    /\ h \notin DOMAIN s.timers \cup {s.transformUpdateTimeout}
    /\ \A g \in 1..(h - 1) :
         g \in DOMAIN s.timers \cup {s.transformUpdateTimeout}
clearTimeout(s, h) == [s EXCEPT !.timers = MapDelete(@, h)]
setTimeoutAt(s, h, delay) ==
  [s EXCEPT !.timers = MapSet(@, h, delay), !.transformUpdateTimeout = h]

armTimer(s) == setTimeoutAt(s, FreshTimer(s), DebounceTicks)
clearPending(s) ==
  IF s.transformUpdateTimeout # NoTimer
  THEN clearTimeout(s, s.transformUpdateTimeout) ELSE s

\* Variant of the 'change' listener that never cancels the pending timer.
onGizmoChangeNoClear(s) == armTimer(s)

\* The 'change' listener of the transform controls.
onGizmoChange(s) == armTimer(clearPending(s))

\* The gizmo moves the attached object by delta along the component its
\* mode edits.
dragGizmo(s, delta) ==
  IF s.gizmoObject = NoObject THEN s
  ELSE CASE s.transformMode = "translate" ->
              [s EXCEPT !.heap[s.gizmoObject].position = @ + delta]
         [] s.transformMode = "rotate" ->
              [s EXCEPT !.heap[s.gizmoObject].rotation = @ + delta]
         [] s.transformMode = "scale" ->
              [s EXCEPT !.heap[s.gizmoObject].scale = @ + delta]

\* The intent that persists the pose the gizmo has just given obj: the
\* object's id, the component of the gizmo's mode, the new value.
IntentOf(s, obj, mode) ==
  CASE obj.kind = "primitive" /\ mode = "translate" ->
         Intent("update-node-position", obj.id,
                obj.position - yOffsetOf(s, obj.id))
    [] obj.kind = "primitive" /\ mode = "rotate" ->
         Intent("update-node-rotation", obj.id, obj.rotation)
    [] obj.kind = "primitive" /\ mode = "scale" ->
         Intent("update-node-scale", obj.id, obj.scale)
    [] obj.kind = "billboard" /\ mode = "translate" ->
         Intent("update-light-position", obj.id, obj.position)
    [] obj.kind = "imported" /\ mode = "translate" ->
         Intent("update-imported-position", obj.id, obj.position)
    [] obj.kind = "imported" /\ mode = "rotate" ->
         Intent("update-imported-rotation", obj.id, obj.rotation)
    [] obj.kind = "imported" /\ mode = "scale" ->
         Intent("update-imported-scale", obj.id, obj.scale)
    [] OTHER -> Null

\* Observation of a change event, taken after the drag and before the
\* listener: the burst it belongs to and the edit now waiting to be saved.
observeChange(s, delta) ==
  [s EXCEPT
     !.burstLen = IF s.transformUpdateTimeout \in DOMAIN s.timers
                  THEN (IF @ < 2 THEN @ + 1 ELSE 2) ELSE 1,
     !.sinceChange = 0,
     !.firedSinceChange = 0,
     !.drags = IF delta # 0 THEN @ + 1 ELSE @,
     !.burst = IF delta # 0
               THEN IntentOf(s, s.heap[s.gizmoObject], s.transformMode)
               ELSE @]

\* Observation: the debounce callback runs.
observeFired(s) ==
  [s EXCEPT !.fired = TRUE, !.burst = Null,
            !.firedSinceChange = IF @ < 2 THEN @ + 1 ELSE 2]

\* One clock tick passes.
tick(s) ==
  [s EXCEPT !.timers = [h \in DOMAIN @ |-> @[h] - 1],
            !.sinceChange = IF @ < DebounceTicks THEN @ + 1 ELSE @]

\* ---------------------------------------------------------------- keyboard
\* keyDownHandler for Escape, and for Digit1 / Digit2 / Digit3.
onEscape(s) ==
  selectObject(emitSelectObject(s, Null, FALSE, FALSE),
               NoObject, Null, FALSE, FALSE)
setMode(s, mode) == [s EXCEPT !.transformMode = mode]

\* ---------------------------------------------------------------- teardown
RECURSIVE disposeAll(_, _)
disposeAll(s, objects) ==
  IF objects = {} THEN s
  ELSE disposeAll(disposeObject3D(s, CHOOSE h \in objects : TRUE),
                  objects \ {CHOOSE h \in objects : TRUE})

RECURSIVE removeAll(_, _)
removeAll(s, objects) ==
  IF objects = {} THEN s
  ELSE removeAll(groupRemove(s, CHOOSE h \in objects : TRUE),
                 objects \ {CHOOSE h \in objects : TRUE})

clearRegistries(s) ==
  [s EXCEPT !.primitiveMeshes = EmptyMap, !.importedObjects = EmptyMap,
            !.lightObjects = EmptyMap]

\* Observation: onBeforeUnmount has performed the step `step`.
observeTeardown(s, step) == [s EXCEPT !.teardown = Append(@, step)]

\* keyState.clear(); the mouse states and pendingPickEvent are reset.
clearInputState(s) ==
  observeTeardown(
    [s EXCEPT !.listeners = {},
              !.keyState = {},
              !.leftMouseState.isDown = FALSE,
              !.leftMouseState.moved = FALSE,
              !.pendingPickEvent = Null,
              !.rightMouseState.isDown = FALSE,
              !.rightMouseState.moved = FALSE,
              !.rightMouseState.suppressContextMenu = FALSE],
    "clearInput")

\* Variant that leaves a pending debounce timer running.
cancelDebounceKeepsTimer(s) == observeTeardown(s, "cancelTimer")

\* if (transformUpdateTimeout !== null) { clearTimeout(...); ... = null }
cancelDebounce(s) ==
  observeTeardown([clearPending(s) EXCEPT !.transformUpdateTimeout = NoTimer],
                  "cancelTimer")

\* if (selectionHelper) { scene.remove; dispose; selectionHelper = null }
releaseSelectionHelper(s) ==
  observeTeardown([s EXCEPT !.selectionHelper = NoObject], "releaseHelper")

\* window.cancelAnimationFrame(frameId)
cancelAnimationFrame(s) ==
  observeTeardown([s EXCEPT !.frameRequested = FALSE], "stopFrameLoop")

disposeRenderables(s) ==
  observeTeardown(
    clearRegistries(
      disposeAll(removeAll(s, Range(s.lightObjects)),
                 Range(s.primitiveMeshes) \cup Range(s.importedObjects)
                   \cup Range(s.lightObjects))),
    "disposeRenderables")

\* transformControls, controls, renderer and axesRenderer are disposed and
\* set to null.
disposeRenderer(s) ==
  observeTeardown(
    [s EXCEPT !.gizmoObject = NoObject, !.mounted = FALSE,
              !.gpuObjects =
                 [r \in DOMAIN @ |-> IF @[r] = "live" THEN "disposed" ELSE @[r]],
              !.renderer = "null", !.axesRenderer = "null"],
    "disposeRenderer")

onBeforeUnmount(s) ==
  disposeRenderer(
    disposeRenderables(
      cancelAnimationFrame(
        releaseSelectionHelper(cancelDebounce(clearInputState(s))))))

\* ------------------------------------------------------- ground alignment
\* Vectors are <<x, y, z>> in half units; a box is [min, max]; an object has
\* a position, a uniform scale and the local boxes of its meshes.
VecAdd(a, b) == <<a[1] + b[1], a[2] + b[2], a[3] + b[3]>>
VecSub(a, b) == <<a[1] - b[1], a[2] - b[2], a[3] - b[3]>>
LeastOf(S) == CHOOSE n \in S : \A m \in S : n <= m
GreatestOf(S) == CHOOSE n \in S : \A m \in S : n >= m

\* new THREE.Box3().setFromObject(object)
setFromObject(object) ==
  IF object.boxes = {} THEN [isEmpty |-> TRUE]
  ELSE [isEmpty |-> FALSE,
        min |-> [i \in 1..3 |->
                  LeastOf({object.position[i] + object.scale * b.min[i] :
                             b \in object.boxes})],
        max |-> [i \in 1..3 |->
                  GreatestOf({object.position[i] + object.scale * b.max[i] :
                                b \in object.boxes})]]

getCenter(box) == [i \in 1..3 |-> (box.min[i] + box.max[i]) \div 2]

ground(object) ==
  [object EXCEPT !.position[2] = @ - setFromObject(object).min[2]]

\* Variant that centres the object and does not ground it.
alignObjectToGroundCentreOnly(object) ==
  IF setFromObject(object).isEmpty THEN object
  ELSE [object EXCEPT
          !.position = VecSub(@, getCenter(setFromObject(object)))]

alignObjectToGround(object) ==
  IF setFromObject(object).isEmpty THEN object
  ELSE ground([object EXCEPT
                 !.position = VecSub(@, getCenter(setFromObject(object)))])

\* The objects a decoded model file can be: any position and scale, no mesh,
\* one mesh or two.
LocalBoxes ==
  {[min |-> <<-2, -4, -2>>, max |-> <<2, 4, 2>>],
   [min |-> <<0, 0, -6>>, max |-> <<4, 2, 0>>],
   [min |-> <<-8, 2, 2>>, max |-> <<-6, 6, 4>>]}
LoadedObjects ==
  [position : {<<0, 0, 0>>, <<10, 20, 10>>, <<-3, -7, 5>>, <<7, 1, -9>>},
   scale : {1, 2, 3},
   boxes : SUBSET LocalBoxes]

\* ------------------------------------------------------------------ camera
Max(a, b) == IF a > b THEN a ELSE b
Min(a, b) == IF a < b THEN a ELSE b

setActiveCamera(s, pose) ==
  IF s.camera = "perspective" THEN [s EXCEPT !.perspCamera = pose]
  ELSE [s EXCEPT !.orthoCamera = pose]

\* vector.add(direction * distance) on a displacement.
MoveBy(disp, dir, distance) ==
  IF distance = 0 THEN disp
  ELSE [d \in DOMAIN disp \cup {dir} |->
          (IF d \in DOMAIN disp THEN disp[d] ELSE 0)
            + (IF d = dir THEN distance ELSE 0)]

\* controls.update() with the controls at rest: the controlled camera keeps
\* its position and looks at the target.
controlsUpdate(s) ==
  setActiveCamera(s, [ActiveCamera(s) EXCEPT
                        !.quaternion = ActiveCamera(s).position.orbit])

\* Observation: the pose and target before a switch away from the
\* perspective camera; forgotten when the camera moves.
observePose(s, type) ==
  IF s.camera = "perspective" /\ type = "orthographic"
  THEN [s EXCEPT !.poseBefore =
          [pose |-> s.perspCamera, target |-> s.controlsTarget]]
  ELSE s
forgetPose(s) == [s EXCEPT !.poseBefore = Null]

resetView(s) ==
  IF ~s.mounted THEN s
  ELSE controlsUpdate(forgetPose(
         [setActiveCamera(s, [ActiveCamera(s) EXCEPT
                                !.position = DefaultPosition])
          EXCEPT !.controlsTarget = <<>>]))

Held(s, code) == IF code \in s.keyState THEN 1 ELSE 0
MoveDirection(s) ==
  <<ActiveCamera(s).quaternion,
    Held(s, "KeyW") - Held(s, "KeyS"),
    Held(s, "KeyD") - Held(s, "KeyA"),
    Held(s, "Space")
      - (IF s.keyState \cap {"ShiftLeft", "ShiftRight"} # {} THEN 1 ELSE 0)>>

applyKeyboardMovement(s, deltaSeconds) ==
  IF ~s.mounted \/ ~isViewportActive(s) THEN s
  ELSE IF MoveDirection(s)[2] = 0 /\ MoveDirection(s)[3] = 0
          /\ MoveDirection(s)[4] = 0 THEN s
  ELSE forgetPose(
         [setActiveCamera(s, [ActiveCamera(s) EXCEPT
            !.position.base =
               MoveBy(@, MoveDirection(s),
                      deltaSeconds * s.cameraMovementSpeed)])
          EXCEPT !.controlsTarget =
                    MoveBy(@, MoveDirection(s),
                           deltaSeconds * s.cameraMovementSpeed)])

\* Variant that leaves the orthographic camera where it was.
switchCameraTypeKeepsOrtho(s, type) ==
  IF ~s.mounted THEN s
  ELSE IF type = s.camera THEN s
  ELSE IF type = "orthographic"
  THEN controlsUpdate(
         [s EXCEPT !.orthoCamera.quaternion = ActiveCamera(s).quaternion,
                   !.camera = "orthographic"])
  ELSE controlsUpdate(
         [s EXCEPT !.perspCamera = ActiveCamera(s),
                   !.camera = "perspective"])

switchCameraType(s, type) ==
  IF ~s.mounted THEN s
  ELSE IF type = s.camera THEN s
  ELSE IF type = "orthographic"
  THEN controlsUpdate(
         [s EXCEPT !.orthoCamera = ActiveCamera(s),
                   !.camera = "orthographic"])
  ELSE controlsUpdate(
         [s EXCEPT !.perspCamera = ActiveCamera(s),
                   !.camera = "perspective"])

\* Observation: a frame with this clock delta has run.
observeFrame(s, dt) ==
  [s EXCEPT !.frame = [delta |-> dt], !.frameSeq = @ + 1]

RECURSIVE SumTriangles(_, _)
SumTriangles(s, hs) ==
  IF hs = {} THEN 0
  ELSE LET h == CHOOSE h \in hs : TRUE
       IN s.heap[h].triangles + SumTriangles(s, hs \ {h})

\* The triangles of every primitive mesh and of every mesh of every imported
\* object.
calculatePolygonCount(s) ==
  SumTriangles(s, Range(s.primitiveMeshes) \cup Range(s.importedObjects))

\* Observation: calculatePolygonCount has run.
observeCount(s) == [s EXCEPT !.counted = @ + 1]

\* Variant that recomputes the count on every frame.
recountIfDirtyAlways(s) ==
  observeCount([s EXCEPT !.polygonCount = calculatePolygonCount(s),
                          !.polygonCountDirty = FALSE])

\* if (polygonCountDirty) { polygonCount.value = ...; polygonCountDirty = false }
recountIfDirty(s) ==
  IF s.polygonCountDirty
  THEN observeCount([s EXCEPT !.polygonCount = calculatePolygonCount(s),
                               !.polygonCountDirty = FALSE])
  ELSE s

\* Variant that applies the whole clock delta.
animateUnclamped(s, dt) ==
  IF ~s.mounted THEN s
  ELSE recountIfDirty(controlsUpdate(applyKeyboardMovement(s, dt)))

\* One frame; clock.getDelta() is dt milliseconds.
animate(s, dt) ==
  IF ~s.mounted THEN s
  ELSE recountIfDirty(
         controlsUpdate(applyKeyboardMovement(s, Min(dt, MAX_FRAME_DELTA))))

\* The orbit control turns the camera about the target.
orbitTo(s, angle) ==
  forgetPose(setActiveCamera(s,
    [ActiveCamera(s) EXCEPT !.position.orbit = angle,
                            !.quaternion = angle]))

\* ------------------------------------------------------------ camera speed
\* Observation: a wheel event with this deltaY has arrived.
observeWheel(s, deltaY) == [s EXCEPT !.wheel = [deltaY |-> deltaY]]

WheelDelta(deltaY) ==
  IF deltaY > 0 THEN 0 - CAMERA_SPEED_STEP ELSE CAMERA_SPEED_STEP

\* Variant that does not clamp.
wheelHandlerUnclamped(s, deltaY) ==
  IF ~isViewportActive(s) THEN s
  ELSE [s EXCEPT !.cameraMovementSpeed = @ + WheelDelta(deltaY)]

wheelHandler(s, deltaY) ==
  IF ~isViewportActive(s) THEN s
  ELSE [s EXCEPT !.cameraMovementSpeed =
          Max(CAMERA_SPEED_MIN, Min(CAMERA_SPEED_MAX, @ + WheelDelta(deltaY)))]

\* ----------------------------------------------------------- keyboard input
\* The key codes pressed in a run of SpecKeys.
Keys == {"KeyW", "KeyQ", "KeyC", "ShiftLeft", "Digit1", "Tab"}
\* code.startsWith('Key') || code.startsWith('Shift') || code === 'Space'
TrackedCodes ==
  {"KeyW", "KeyS", "KeyA", "KeyD", "KeyQ", "KeyC", "Space",
   "ShiftLeft", "ShiftRight"}
DigitMode(code) ==
  IF code = "Digit1" THEN "translate"
  ELSE IF code = "Digit2" THEN "rotate" ELSE "scale"

keyDownHandler(s, code, shiftKey) ==
  IF ~isViewportActive(s) THEN s
  ELSE IF code = "Tab" THEN s
  ELSE IF code = "Escape" THEN onEscape(s)
  ELSE IF code = "KeyC" /\ shiftKey THEN resetView(s)
  ELSE IF code \in {"Digit1", "Digit2", "Digit3"} /\ s.mounted
       THEN setMode(s, DigitMode(code))
  ELSE IF code \in TrackedCodes THEN [s EXCEPT !.keyState = @ \cup {code}]
  ELSE s

keyUpHandler(s, code) == [s EXCEPT !.keyState = @ \ {code}]

\* Variant that keeps the held keys over a blur.
blurHandlerKeepsKeys(s) == s

blurHandler(s) == [s EXCEPT !.keyState = {}]

\* A key goes down, or repeats while it is held.  The window's listeners
\* get the event when the window has the focus.
pressKey(s, code) ==
  [(IF s.windowFocused
    THEN keyDownHandler(s, code, "ShiftLeft" \in s.keysHeld \cup {code})
    ELSE s)
   EXCEPT !.keysHeld = @ \cup {code},
          !.pressedInFocus =
             IF s.windowFocused /\ isViewportActive(s)
             THEN @ \cup {code} ELSE @]

releaseKey(s, code) ==
  [(IF s.windowFocused THEN keyUpHandler(s, code) ELSE s)
   EXCEPT !.keysHeld = @ \ {code}, !.pressedInFocus = @ \ {code}]

\* ------------------------------------------------------------ pointer input
hideContextMenu(s) == [s EXCEPT !.contextMenu.visible = FALSE]

showContextMenuAt(s) ==
  IF s.rightMouseState.suppressContextMenu
  THEN hideContextMenu([s EXCEPT !.rightMouseState.suppressContextMenu = FALSE])
  ELSE [s EXCEPT !.activeElement = "viewport", !.contextMenu.visible = TRUE]

\* dx * dx + dy * dy > MOUSE_DRAG_THRESHOLD_SQ, along one axis.
BeyondThreshold(x, startX) ==
  (x - startX) * (x - startX) > MOUSE_DRAG_THRESHOLD_SQ

\* pointerdown on the canvas; event.button is 0 (left) or 2 (right).
pointerDownHandler(s, button, x) ==
  IF button = 0
  THEN [hideContextMenu(s) EXCEPT
          !.leftMouseState = [isDown |-> TRUE, moved |-> FALSE, startX |-> x],
          !.pendingPickEvent = [x |-> x]]
  ELSE [hideContextMenu(s) EXCEPT
          !.rightMouseState.isDown = TRUE,
          !.rightMouseState.moved = FALSE,
          !.rightMouseState.startX = x]

\* pointermove on the canvas.
pointerMoveHandler(s, x) ==
  [s EXCEPT
     !.leftMouseState.moved =
        @ \/ (s.leftMouseState.isDown
                /\ BeyondThreshold(x, s.leftMouseState.startX)),
     !.rightMouseState.moved =
        @ \/ (s.rightMouseState.isDown
                /\ BeyondThreshold(x, s.rightMouseState.startX))]

\* Observation: a pick has run with the pending press event.
observePick(s) == [s EXCEPT !.picked = s.pendingPickEvent]

releaseLeft(s) ==
  [s EXCEPT !.leftMouseState.isDown = FALSE, !.leftMouseState.moved = FALSE,
            !.pendingPickEvent = Null]

\* Variant that picks on every release.
pointerUpHandlerAlwaysPicks(s, button, hit) ==
  IF button = 0
  THEN releaseLeft(IF s.pendingPickEvent # Null
                   THEN observePick(pickObjectAt(s, hit)) ELSE s)
  ELSE [s EXCEPT !.rightMouseState.isDown = FALSE,
                 !.rightMouseState.suppressContextMenu =
                    s.rightMouseState.moved,
                 !.rightMouseState.moved = FALSE]

\* pointerup on the window; the ray of a pick hits `hit`.
pointerUpHandler(s, button, hit) ==
  IF button = 0
  THEN releaseLeft(IF ~s.leftMouseState.moved /\ s.pendingPickEvent # Null
                   THEN observePick(pickObjectAt(s, hit)) ELSE s)
  ELSE [s EXCEPT !.rightMouseState.isDown = FALSE,
                 !.rightMouseState.suppressContextMenu =
                    s.rightMouseState.moved,
                 !.rightMouseState.moved = FALSE]

\* The gesture a button press starts.
Gesture(x, where, menuAt) ==
  [start |-> x, far |-> FALSE, onCanvas |-> where = "canvas",
   menuAt |-> menuAt]
ButtonOf(s, button) == IF button = 0 THEN s.pointer.left ELSE s.pointer.right
setButton(s, button, g) ==
  IF button = 0 THEN [s EXCEPT !.pointer.left = g]
  ELSE [s EXCEPT !.pointer.right = g]

\* The button goes down at the pointer's position, on the canvas or on one
\* of the elements the viewport section lays over it.
pressButton(s, button, where, menuAt) ==
  [setButton(IF where = "canvas"
             THEN pointerDownHandler(s, button, s.pointer.x) ELSE s,
             button, Gesture(s.pointer.x, where, menuAt))
   EXCEPT !.menuDue = IF button = 2 /\ menuAt = "press"
                      THEN Gesture(s.pointer.x, where, menuAt) ELSE @]

movedGesture(g, x) ==
  IF g = Null THEN g
  ELSE [g EXCEPT !.far = @ \/ BeyondThreshold(x, g.start)]

movePointer(s, x) ==
  [pointerMoveHandler(s, x) EXCEPT
     !.pointer = [x |-> x, left |-> movedGesture(s.pointer.left, x),
                  right |-> movedGesture(s.pointer.right, x)]]

releaseButton(s, button, hit) ==
  [setButton(pointerUpHandler(s, button, hit), button, Null)
   EXCEPT !.menuDue = IF button = 2 /\ s.pointer.right.menuAt = "release"
                      THEN s.pointer.right ELSE @]

\* The contextmenu event that is due reaches the viewport section.
deliverContextMenu(s) ==
  [showContextMenuAt(s) EXCEPT !.menuDue = Null, !.menuEvent = TRUE]

\* ------------------------------------------------------------------ actions
PrimitiveKinds == {"box"}
\* The primitive types, and a kind that is none of them.
PrimitiveTypes == {"box", "sphere", "cylinder", "cone", "torus", "plane"}
UnknownKind == "capsule"

AddPrimitive(primitive) ==
  /\ mounted
  /\ Commit(collectGarbage(flushJobs(addPrimitiveNode(Begin, primitive))))

DeleteNode(nodeId) ==
  /\ nodeId \in Ids(nodes)
  /\ mounted
  /\ Commit(collectGarbage(flushJobs(deleteNodeById(Begin, nodeId))))

AddLight ==
  /\ mounted
  /\ Commit(collectGarbage(flushJobs(addLightNode(Begin))))

DeleteLight(lightId) ==
  /\ lightId \in Ids(lights)
  /\ mounted
  /\ Commit(collectGarbage(flushJobs(deleteLightById(Begin, lightId))))

ImportModel ==
  /\ mounted
  /\ Commit(collectGarbage(flushJobs(importModelFiles(Begin))))

DeleteImportedModel(assetId) ==
  /\ assetId \in Ids(importedAssets)
  /\ mounted
  /\ Commit(collectGarbage(flushJobs(deleteImportedModel(Begin, assetId))))

\* A row of the scene inspector is clicked.
InspectorSelect(id, primitive, light) ==
  /\ \/ primitive /\ ~light /\ id \in Ids(nodes)
     \/ ~primitive /\ light /\ id \in Ids(lights)
     \/ ~primitive /\ ~light /\ id \in Ids(importedAssets)
  /\ mounted
  /\ Commit(collectGarbage(flushJobs(
       emitSelectObject(Begin, id, primitive, light))))

\* A left click in the viewport (no drag) whose ray hits `hit`.
Pick(hit) ==
  /\ hit \in Pickable(Cur) \cup {NoObject}
  /\ mounted
  /\ Commit(collectGarbage(flushJobs(pickObjectAt(Begin, hit))))

\* The decode a pass awaits settles.
DecodeResolve(k) ==
  /\ k \in DOMAIN passes
  /\ \E color \in FileColors :
       Commit(collectGarbage(
         resumeLoaded([Begin EXCEPT !.passes = SubSeq(@, 1, k - 1)
                                    \o SubSeq(@, k + 1, Len(@))],
                      passes[k], color, color # NoColor)))

DecodeReject(k) ==
  /\ k \in DOMAIN passes
  /\ Commit(collectGarbage(
       resumeFailed(
         observeRejected([Begin EXCEPT !.passes = SubSeq(@, 1, k - 1)
                                       \o SubSeq(@, k + 1, Len(@))],
                         passes[k].asset),
         passes[k])))

\* The gizmo is dragged by delta (0: a change event without a pose change).
GizmoChange(delta) ==
  /\ mounted
  /\ delta = 0 \/ (gizmoObject # NoObject /\ drags < MaxDrags)
  /\ Cardinality(DOMAIN timers) < MaxTimers
  /\ Commit(collectGarbage(flushJobs(
       onGizmoChange(observeChange(dragGizmo(Begin, delta), delta)))))

\* Time passes, unless a timer is due.
Tick ==
  /\ timers # EmptyMap
  /\ \A h \in DOMAIN timers : timers[h] > 0
  /\ Commit(tick(Begin))

\* A due timer runs its callback, emitTransformChange.
TimerFire(h) ==
  /\ h \in DOMAIN timers /\ timers[h] = 0
  /\ Commit(collectGarbage(flushJobs(
       emitTransformChange(observeFired(clearTimeout(Begin, h))))))

PressEscape ==
  /\ mounted
  /\ Commit(collectGarbage(flushJobs(onEscape(Begin))))

PressDigit(mode) ==
  /\ mounted /\ mode # transformMode
  /\ Commit(setMode(Begin, mode))

\* Observation: how the renderers' construction went in onMounted.
observeMount(s, outcome) == [s EXCEPT !.mountOutcome = outcome]

\* new THREE.WebGLRenderer(...) for the main canvas succeeded.
createRenderer(s) ==
  [s EXCEPT !.gpuObjects.main = "live", !.renderer = "main"]

\* The rest of onMounted once both renderers exist.
finishSetup(s) ==
  syncImportedAssets(syncLights(syncPrimitiveNodes(
    [s EXCEPT !.gpuObjects.axes = "live", !.axesRenderer = "axes",
              !.mounted = TRUE, !.transformMode = "translate",
              !.listeners = Listeners, !.frameRequested = TRUE])))

\* Variant that keeps the main renderer when the axes renderer fails.
onMountedKeepsRenderer(s, outcome) ==
  IF outcome \in {"noWebGL", "mainThrows"} THEN s
  ELSE IF outcome = "axesThrows" THEN createRenderer(s)
  ELSE finishSetup(createRenderer(s))

\* onMounted; outcome says whether WebGL exists and which renderer
\* constructor throws.
onMounted(s, outcome) ==
  IF outcome \in {"noWebGL", "mainThrows"} THEN s
  ELSE IF outcome = "axesThrows"
  THEN [createRenderer(s) EXCEPT !.gpuObjects.main = "disposed",
                                 !.renderer = "null"]
  ELSE finishSetup(createRenderer(s))

Mount(outcome) ==
  /\ mountOutcome = "pending"
  /\ Commit(collectGarbage(flushJobs(
       observeMount(onMounted(Begin, outcome), outcome))))

Unmount ==
  /\ mounted
  /\ Commit(collectGarbage(onBeforeUnmount(Begin)))

\* The functions of the editor store, called with any id and value as the
\* store's tests call them; `call` records the scene-editor function applied.
observeCall(s, op, id) ==
  [s EXCEPT !.call = [op |-> op, id |-> id], !.calls = @ + 1]

StoreAddPrimitive(primitive) ==
  Commit(collectGarbage(flushJobs(addPrimitiveNode(Begin, primitive))))

StoreAddLight ==
  Commit(collectGarbage(flushJobs(addLightNode(Begin))))

StoreDeleteNode(nodeId) ==
  Commit(collectGarbage(flushJobs(
    observeCall(deleteNodeById(Begin, nodeId), "deleteNode", nodeId))))

StoreDeleteLight(lightId) ==
  Commit(collectGarbage(flushJobs(
    observeCall(deleteLightById(Begin, lightId), "deleteLight", lightId))))

StoreUpdateNode(op, nodeId, value) ==
  Commit(collectGarbage(flushJobs(observeCall(
    CASE op = "updateNodePosition" ->
           updateNodePositionById(Begin, nodeId, value)
      [] op = "updateNodeScale" -> updateNodeScaleById(Begin, nodeId, value)
      [] op = "updateNodeRotation" ->
           updateNodeRotationById(Begin, nodeId, value),
    op, nodeId))))

StoreUpdateLight(lightId, value) ==
  Commit(collectGarbage(flushJobs(
    observeCall(updateLightPositionById(Begin, lightId, value),
                "updateLightPosition", lightId))))

StoreRename(name) ==
  Commit(collectGarbage(flushJobs(renameActiveScene(Begin, name))))

Hydrate ==
  Commit(collectGarbage(flushJobs(hydrate(Begin))))

\* The first pending request on an object store completes.
IdbComplete(table) ==
  /\ \E i \in DOMAIN requests : requests[i].table = table
  /\ Commit(collectGarbage(flushJobs(completeRequest(Begin, table))))

\* The page is loaded again: a new store instance over the same database.
\* The writes still pending are all committed later or all lost.
Reload(committed) ==
  /\ ~mounted
  /\ Commit(collectGarbage(flushJobs(useEditorStore(Begin, committed))))

\* A document in the old format: the same document without a lights
\* property.
Legacy(s) == [f \in DOMAIN s \ {"lights"} |-> s[f]]

\* What a call made of a document in the old format: whether its result has
\* a lights array, and the array.
LightsOfResult(scene) ==
  [present |-> "lights" \in DOMAIN scene, lights |-> lightsOf(scene)]

LegacyLightIds == {<<"light", n>> : n \in 1..(LegacyMaxLights + 1)}

observeLegacy(s, before) ==
  [s EXCEPT !.legacy =
     [had |-> Len(before.lights),
      addLight |-> LightsOfResult(addLight(Legacy(before))),
      deleteLight |->
        {LightsOfResult(deleteLight(Legacy(before), id)) :
           id \in LegacyLightIds},
      updateLightPosition |->
        {LightsOfResult(updateLightPosition(Legacy(before), id, 7)) :
           id \in LegacyLightIds},
      hydrate |->
        LightsOfResult(loadStoredScene(Legacy(makeSceneSnapshot(before)))),
      hasLights |-> hasLights(Legacy(before))]]

\* props.sceneData becomes the document in the old format and the watchers
\* on it run; the scene-editor functions, hydrate's load and hasLights are
\* applied to the same document. The lights variable then stands for the
\* absent array.
SetLegacySceneData ==
  /\ mounted
  /\ Commit(collectGarbage(
       observeLegacy(
         withLights(flushJobs(setActiveScene(Legacy(Begin))), <<>>),
         Begin)))

KeyDown(code) ==
  /\ mounted
  /\ Commit(collectGarbage(flushJobs(pressKey(Begin, code))))

KeyUp(code) ==
  /\ mounted /\ code \in keysHeld
  /\ Commit(releaseKey(Begin, code))

WindowBlur ==
  /\ mounted /\ windowFocused
  /\ Commit(blurHandler([Begin EXCEPT !.windowFocused = FALSE]))

WindowFocus ==
  /\ mounted /\ ~windowFocused
  /\ Commit([Begin EXCEPT !.windowFocused = TRUE])

\* The focus moves between the viewport section and another element.
FocusElement(element) ==
  /\ mounted /\ windowFocused /\ element # activeElement
  /\ Commit([Begin EXCEPT !.activeElement = element])

\* The loader resolves with an object.
LoadObject(object) ==
  /\ model3d = Null
  /\ Commit([Begin EXCEPT !.model3d =
               [object |-> object, calls |-> 0, first |-> object]])

AlignObject ==
  /\ model3d # Null
  /\ Commit([Begin EXCEPT !.model3d =
               [object |-> alignObjectToGround(@.object),
                calls |-> @.calls + 1,
                first |-> IF @.calls = 0
                          THEN alignObjectToGround(@.object) ELSE @.first]])

Frame(dt) ==
  /\ mounted /\ frameRequested
  /\ Commit(observeFrame(animate(Begin, dt), dt))

\* The toolbar sets cameraType and its watcher runs.
SwitchCamera(type) ==
  /\ mounted
  /\ Commit(switchCameraType(observePose(Begin, type), type))

Orbit(angle) ==
  /\ mounted /\ angle # ActiveCamera(Cur).position.orbit
  /\ Commit(orbitTo(Begin, angle))

\* A wheel event on the canvas.
Wheel(deltaY) ==
  /\ mounted
  /\ Commit(observeWheel(wheelHandler(Begin, deltaY), deltaY))

PointerDown(button, where, menuAt) ==
  /\ mounted /\ menuDue = Null
  /\ ButtonOf(Cur, button) = Null
  /\ Commit(collectGarbage(flushJobs(
       pressButton(Begin, button, where, menuAt))))

PointerMove(x) ==
  /\ mounted /\ menuDue = Null
  /\ x # pointer.x
  /\ Commit(movePointer(Begin, x))

PointerUp(button, hit) ==
  /\ mounted /\ menuDue = Null
  /\ ButtonOf(Cur, button) # Null
  /\ Commit(collectGarbage(flushJobs(releaseButton(Begin, button, hit))))

ContextMenuEvent ==
  /\ mounted /\ menuDue # Null
  /\ Commit(deliverContextMenu(Begin))

\* Toolbar buttons.
ClickDisplayMode(mode) ==
  /\ mounted /\ mode # displayMode
  /\ Commit(collectGarbage(flushJobs(
       setDisplayMode(observeSwitch(Begin, mode), mode))))

ClickPolygonEdges ==
  /\ mounted /\ displayMode # "wireframe"
  /\ Commit(collectGarbage(flushJobs(
       setShowPolygonEdges(Begin, ~showPolygonEdges))))

ClickVertices ==
  /\ mounted /\ displayMode # "wireframe"
  /\ Commit(collectGarbage(flushJobs(setShowVertices(Begin, ~showVertices))))

\* ------------------------------------------------------------ specification
\* The component on an empty scene, right after onMounted has set it up (m)
\* or before onMounted has run.
InitWith(m, d) ==
  /\ nodes = <<>>
  /\ lights = <<>>
  /\ importedAssets = <<>>
  /\ selectedObjectId = Null
  /\ selectedIsPrimitive = FALSE
  /\ selectedIsLight = FALSE
  /\ wsSelectedObjectId = Null
  /\ wsSelectedIsPrimitive = FALSE
  /\ wsSelectedIsLight = FALSE
  /\ importedModelTransforms = EmptyMap
  /\ nodeSeq = 0
  /\ lightSeq = 0
  /\ assetSeq = 0
  /\ queued = {}
  /\ mounted = m
  /\ heap = EmptyMap
  /\ fresh = NoObject
  /\ ambientLights = 0
  /\ primitiveMeshes = EmptyMap
  /\ importedObjects = EmptyMap
  /\ lightObjects = EmptyMap
  /\ sceneLights = EmptyMap
  /\ loadingImports = {}
  /\ isSyncingImports = FALSE
  /\ passes = <<>>
  /\ selectedObject = NoObject
  /\ currentSelectedId = Null
  /\ isPrimitive = FALSE
  /\ isLight = FALSE
  /\ selectionHelper = NoObject
  /\ gizmoObject = NoObject
  /\ transformMode = "translate"
  /\ timers = EmptyMap
  /\ transformUpdateTimeout = NoTimer
  /\ polygonCountDirty = TRUE
  /\ displayMode = "solid"
  /\ showPolygonEdges = FALSE
  /\ showVertices = FALSE
  /\ edgeHelpers = {}
  /\ vertexHelpers = {}
  /\ disposedWhileSelected = {}
  /\ clearedKinds = {}
  /\ importErrors = {}
  /\ rejected = {}
  /\ emitted = <<>>
  /\ fired = FALSE
  /\ burst = Null
  /\ drags = 0
  /\ burstLen = 0
  /\ sinceChange = 0
  /\ firedSinceChange = 0
  /\ overlayCalls = {}
  /\ solidColors = EmptyMap
  /\ teardown = <<>>
  /\ frameRequested = m
  /\ leftMouseState = [isDown|->FALSE,moved|->FALSE,startX|->0]
  /\ rightMouseState = [isDown|->FALSE,moved|->FALSE,startX|->0,suppressContextMenu|->FALSE]
  /\ pendingPickEvent = Null
  /\ keyState = {}
  /\ contextMenu = [visible|->FALSE]
  /\ pointer = [x|->0,left|->Null,right|->Null]
  /\ menuDue = Null
  /\ keysHeld = {}
  /\ activeElement = "body"
  /\ windowFocused = TRUE
  /\ pressedInFocus = {}
  /\ picked = Null
  /\ menuEvent = FALSE
  /\ cameraMovementSpeed = DEFAULT_CAMERA_SPEED
  /\ wheel = Null
  /\ camera = "perspective"
  /\ perspCamera = DefaultPose
  /\ orthoCamera = DefaultPose
  /\ frameSeq = 0
  /\ frame = Null
  /\ poseBefore = Null
  /\ hold = Null
  /\ controlsTarget = <<>>
  /\ model3d = Null
  /\ listeners = IF m THEN Listeners ELSE {}
  /\ gpuObjects = [main |-> IF m THEN "live" ELSE "absent", axes |-> IF m THEN "live" ELSE "absent"]
  /\ renderer = IF m THEN "main" ELSE "null"
  /\ axesRenderer = IF m THEN "axes" ELSE "null"
  /\ mountOutcome = IF m THEN "ok" ELSE "pending"
  /\ sceneId = <<"scene", 1>>
  /\ sceneName = "Untitled Scene"
  /\ sceneSeq = 1
  /\ requests = <<>>
  /\ scenes = EmptyMap
  /\ modelAssets = <<>>
  /\ isHydrating = FALSE
  /\ overlapped = FALSE
  /\ edited = FALSE
  /\ hydrated = Null
  /\ idbDeferred = d
  /\ call = Null
  /\ calls = 0
  /\ legacy = Null
  /\ racing = FALSE
  /\ unawaited = FALSE
  /\ polygonCount = 0
  /\ counted = 0
  /\ switched = Null

Init == InitWith(TRUE, FALSE)

\* The component before onMounted has run.
InitUnmounted == InitWith(FALSE, FALSE)

Next ==
  \/ \E primitive \in PrimitiveKinds :
       nodeSeq < MaxNodes /\ AddPrimitive(primitive)
  \/ \E id \in Ids(nodes) : DeleteNode(id)
  \/ lightSeq < MaxLights /\ AddLight
  \/ \E id \in Ids(lights) : DeleteLight(id)
  \/ assetSeq < MaxAssets /\ ImportModel
  \/ \E id \in Ids(importedAssets) : DeleteImportedModel(id)
  \/ \E id \in Ids(nodes) : InspectorSelect(id, TRUE, FALSE)
  \/ \E id \in Ids(lights) : InspectorSelect(id, FALSE, TRUE)
  \/ \E id \in Ids(importedAssets) : InspectorSelect(id, FALSE, FALSE)
  \/ \E hit \in Pickable(Cur) \cup {NoObject} : Pick(hit)
  \/ \E k \in DOMAIN passes : DecodeResolve(k)
  \/ \E k \in DOMAIN passes : DecodeReject(k)

Spec == Init /\ [][Next]_vars

\* Scene edits only: no asset is ever imported.
NextScene ==
  \/ \E primitive \in PrimitiveKinds :
       nodeSeq < SceneMaxNodes /\ AddPrimitive(primitive)
  \/ \E id \in Ids(nodes) : DeleteNode(id)
  \/ lightSeq < SceneMaxLights /\ AddLight
  \/ \E id \in Ids(lights) : DeleteLight(id)
  \/ \E id \in Ids(nodes) : InspectorSelect(id, TRUE, FALSE)
  \/ \E id \in Ids(lights) : InspectorSelect(id, FALSE, TRUE)
  \/ \E hit \in Pickable(Cur) \cup {NoObject} : Pick(hit)

SpecScene == Init /\ [][NextScene]_vars

\* Every decode succeeds.
NextDecodeOk ==
  \/ \E primitive \in PrimitiveKinds :
       nodeSeq < MaxNodes /\ AddPrimitive(primitive)
  \/ \E id \in Ids(nodes) : DeleteNode(id)
  \/ \E id \in Ids(nodes) : InspectorSelect(id, TRUE, FALSE)
  \/ assetSeq < MaxAssets /\ ImportModel
  \/ \E id \in Ids(importedAssets) : DeleteImportedModel(id)
  \/ \E id \in Ids(importedAssets) : InspectorSelect(id, FALSE, FALSE)
  \/ \E hit \in Pickable(Cur) \cup {NoObject} : Pick(hit)
  \/ \E k \in DOMAIN passes : DecodeResolve(k)

SpecDecodeOk == Init /\ [][NextDecodeOk]_vars

\* Gizmo edits of primitives, their debounce timer, the keys and selection
\* changes that can fall inside the debounce window, and teardown.
NextGizmo ==
  \/ \E primitive \in PrimitiveKinds :
       nodeSeq < GizmoMaxNodes /\ AddPrimitive(primitive)
  \/ \E id \in Ids(nodes) : InspectorSelect(id, TRUE, FALSE)
  \/ \E hit \in Pickable(Cur) \cup {NoObject} : Pick(hit)
  \/ PressEscape
  \/ \E mode \in TransformModes : PressDigit(mode)
  \/ \E delta \in 0..1 : GizmoChange(delta)
  \/ Tick
  \/ \E h \in DOMAIN timers : TimerFire(h)
  \/ Unmount

SpecGizmo == Init /\ [][NextGizmo]_vars

\* Scene edits, selection changes and the toolbar's display toggles.
NextOverlay ==
  \/ \E primitive \in PrimitiveKinds :
       nodeSeq < OverlayMaxNodes /\ AddPrimitive(primitive)
  \/ \E id \in Ids(nodes) : DeleteNode(id)
  \/ \E id \in Ids(nodes) : InspectorSelect(id, TRUE, FALSE)
  \/ \E hit \in Pickable(Cur) \cup {NoObject} : Pick(hit)
  \/ PressEscape
  \/ \E mode \in {"solid", "wireframe"} : ClickDisplayMode(mode)
  \/ ClickPolygonEdges
  \/ ClickVertices

SpecOverlay == Init /\ [][NextOverlay]_vars

\* Nodes, lights and imported assets together with the display toggles.
NextDisplay ==
  \/ \E primitive \in PrimitiveKinds :
       nodeSeq < DisplayMaxNodes /\ AddPrimitive(primitive)
  \/ lightSeq < DisplayMaxLights /\ AddLight
  \/ assetSeq < DisplayMaxAssets /\ ImportModel
  \/ \E id \in Ids(importedAssets) : DeleteImportedModel(id)
  \/ \E id \in Ids(nodes) : InspectorSelect(id, TRUE, FALSE)
  \/ \E id \in Ids(lights) : InspectorSelect(id, FALSE, TRUE)
  \/ \E id \in Ids(importedAssets) : InspectorSelect(id, FALSE, FALSE)
  \/ \E hit \in Pickable(Cur) \cup {NoObject} : Pick(hit)
  \/ \E k \in DOMAIN passes : DecodeResolve(k)
  \/ \E mode \in {"solid", "wireframe"} : ClickDisplayMode(mode)
  \/ ClickPolygonEdges
  \/ ClickVertices

SpecDisplay == Init /\ [][NextDisplay]_vars

\* Left-button gestures over a scene.
NextPick ==
  \/ \E primitive \in PrimitiveKinds :
       nodeSeq < PickMaxNodes /\ AddPrimitive(primitive)
  \/ \E where \in {"canvas", "overlay"} : PointerDown(0, where, "none")
  \/ \E x \in 0..MaxCoord : PointerMove(x)
  \/ \E hit \in Pickable(Cur) \cup {NoObject} : PointerUp(0, hit)

SpecPick == Init /\ [][NextPick]_vars

\* Right-button gestures and the contextmenu events they cause.
NextMenu ==
  \/ \E where \in {"canvas", "overlay"}, menuAt \in {"press", "release"} :
       PointerDown(2, where, menuAt)
  \/ \E x \in 0..MaxCoord : PointerMove(x)
  \/ PointerUp(2, NoObject)
  \/ ContextMenuEvent

SpecMenu == Init /\ [][NextMenu]_vars

\* Keyboard events, focus changes and window blurs.
NextKeys ==
  \/ \E code \in Keys : KeyDown(code)
  \/ \E code \in Keys : KeyUp(code)
  \/ WindowBlur
  \/ WindowFocus
  \/ \E element \in {"viewport", "body"} : FocusElement(element)

SpecKeys == Init /\ [][NextKeys]_vars

\* Wheel events and focus changes.
NextWheel ==
  \/ \E deltaY \in {-1, 0, 1} : Wheel(deltaY)
  \/ \E element \in {"viewport", "body"} : FocusElement(element)

SpecWheel == Init /\ [][NextWheel]_vars

\* Mounting with and without a GPU context, and the viewport's use after.
NextMount ==
  \/ \E outcome \in {"ok", "noWebGL", "mainThrows", "axesThrows"} :
       Mount(outcome)
  \/ \E primitive \in PrimitiveKinds :
       nodeSeq < MountMaxNodes /\ AddPrimitive(primitive)
  \/ \E hit \in Pickable(Cur) \cup {NoObject} : Pick(hit)
  \/ KeyDown("KeyW")
  \/ KeyUp("KeyW")
  \/ \E element \in {"viewport", "body"} : FocusElement(element)
  \/ \E deltaY \in {-1, 1} : Wheel(deltaY)
  \/ Unmount

SpecMount == InitUnmounted /\ [][NextMount]_vars

\* Scene edits, and the document replaced by its old-format version.
NextLegacy ==
  \/ nodeSeq < LegacyMaxNodes /\ AddPrimitive("box")
  \/ \E id \in Ids(nodes) : DeleteNode(id)
  \/ lightSeq < LegacyMaxLights /\ AddLight
  \/ \E id \in Ids(lights) : DeleteLight(id)
  \/ \E id \in Ids(nodes) : InspectorSelect(id, TRUE, FALSE)
  \/ \E id \in Ids(lights) : InspectorSelect(id, FALSE, TRUE)
  \/ SetLegacySceneData

SpecLegacy == Init /\ [][NextLegacy]_vars

\* The scene-editor functions applied through the store to documents of up
\* to EditMaxNodes nodes and EditMaxLights lights, with ids that are in the
\* document, that were deleted from it and that never were in it.
NodeUpdates == {"updateNodePosition", "updateNodeScale", "updateNodeRotation"}
EditNodeIds == {<<"node", n>> : n \in 1..(EditMaxNodes + 1)}
EditLightIds == {<<"light", n>> : n \in 1..(EditMaxLights + 1)}
EditValues == {7}

NextEditor ==
  \/ nodeSeq < EditMaxNodes /\ StoreAddPrimitive("box")
  \/ lightSeq < EditMaxLights /\ StoreAddLight
  \/ calls < EditMaxCalls /\ \E id \in EditNodeIds : StoreDeleteNode(id)
  \/ calls < EditMaxCalls /\ \E id \in EditLightIds : StoreDeleteLight(id)
  \/ /\ calls < EditMaxCalls
     /\ \E op \in NodeUpdates, id \in EditNodeIds, value \in EditValues :
          StoreUpdateNode(op, id, value)
  \/ /\ calls < EditMaxCalls
     /\ \E id \in EditLightIds, value \in EditValues :
          StoreUpdateLight(id, value)

SpecEditor == InitUnmounted /\ [][NextEditor]_vars

\* The editor store over a database whose requests complete later: edits
\* that are not awaited, hydrate, and the page loaded again.
Edits == nodeSeq + lightSeq + calls

EditStore ==
  \/ StoreAddPrimitive("box")
  \/ StoreAddLight
  \/ \E id \in Ids(nodes) : StoreDeleteNode(id)
  \/ \E id \in Ids(lights) : StoreDeleteLight(id)
  \/ \E op \in NodeUpdates, id \in Ids(nodes), value \in EditValues :
       StoreUpdateNode(op, id, value)
  \/ \E id \in Ids(lights), value \in EditValues :
       StoreUpdateLight(id, value)

NextStore ==
  \/ Len(requests) < StoreMaxRequests /\ Edits < StoreMaxEdits /\ EditStore
  \/ /\ Len(requests) < StoreMaxRequests
     /\ StoreRename("Renamed")
  \/ Len(requests) < StoreMaxRequests /\ ~isHydrating /\ Hydrate
  \/ \E table \in Tables : IdbComplete(table)

InitStore == InitWith(FALSE, TRUE)

SpecStore == InitStore /\ [][NextStore]_vars

\* The same with the page loaded again.
NextReload ==
  \/ Len(requests) < ReloadMaxRequests /\ Edits < ReloadMaxEdits /\ EditStore
  \/ Len(requests) < ReloadMaxRequests /\ ~isHydrating /\ Hydrate
  \/ \E table \in Tables : IdbComplete(table)
  \/ sceneSeq < ReloadMaxStores /\ \E committed \in BOOLEAN : Reload(committed)

SpecReload == InitStore /\ [][NextReload]_vars

\* Primitives of every kind.
NextKinds ==
  \/ \E primitive \in PrimitiveTypes \cup {UnknownKind} :
       nodeSeq < KindMaxNodes /\ AddPrimitive(primitive)
  \/ \E id \in Ids(nodes) : DeleteNode(id)

SpecKinds == Init /\ [][NextKinds]_vars

\* alignObjectToGround applied to the objects a loader can yield.
NextAlign ==
  \/ \E object \in LoadedObjects : LoadObject(object)
  \/ model3d # Null /\ model3d.calls < AlignMaxCalls /\ AlignObject

SpecAlign == Init /\ [][NextAlign]_vars

\* Flying the camera with the keyboard.
FrameDeltas == {20, 80}
NextFly ==
  \/ \E code \in {"KeyW", "KeyD"} : KeyDown(code)
  \/ \E code \in {"KeyW", "KeyD"} : KeyUp(code)
  \/ \E element \in {"viewport", "body"} : FocusElement(element)
  \/ \E dt \in FrameDeltas : frameSeq < MaxFrames /\ Frame(dt)
  \/ /\ cameraMovementSpeed
          < DEFAULT_CAMERA_SPEED + FlyMaxSteps * CAMERA_SPEED_STEP
     /\ Wheel(-1)

SpecFly == Init /\ [][NextFly]_vars

\* Switching the camera type between moves of the camera.
NextSwitch ==
  \/ KeyDown("KeyW")
  \/ KeyUp("KeyW")
  \/ \E element \in {"viewport", "body"} : FocusElement(element)
  \/ frameSeq < SwitchMaxFrames /\ Frame(MAX_FRAME_DELTA)
  \/ \E type \in {"perspective", "orthographic"} : SwitchCamera(type)
  \/ \E angle \in Angles : Orbit(angle)

SpecSwitch == Init /\ [][NextSwitch]_vars

\* =================================================================== claims
\* Ids currently in the document and the asset list.
AllListed == Ids(nodes) \cup Ids(lights) \cup Ids(importedAssets)
\* Objects attached to a scene-graph group.
InGroup(group) == {h \in DOMAIN heap : heap[h].parent = group}
Injective(registry) ==
  \A a, b \in DOMAIN registry : registry[a] = registry[b] => a = b

\* C1: in the primitive, light and imported-asset removal loops no renderable
\* is taken out of the scene and disposed while the selected object, the
\* outline helper, the gizmo, the controller's selected id or the parent's
\* selected id (the select-object emission) still refer to it: the selection
\* is cleared strictly before.
C1_ClearedBeforeDisposal == disposedWhileSelected = {}

\* A removal loop has just cleared the selection held by a stale entry.
C1_Witness ==
  /\ clearedKinds # {}
  /\ selectedObject = NoObject /\ currentSelectedId = Null
  /\ gizmoObject = NoObject /\ wsSelectedObjectId = Null

\* C2: a step that deletes the currently selected node, light or imported
\* asset from the document / asset list ends, after the synchronization it
\* triggers, with the controller's selected id and selected object empty.
C2_SelectionEmptyAfterDelete ==
  [][(/\ currentSelectedId # Null
      /\ currentSelectedId \in AllListed
      /\ currentSelectedId \notin AllListed')
     => (currentSelectedId' = Null /\ selectedObject' = NoObject)]_vars

\* C3: after synchronization the primitive registry's ids are the node ids,
\* the billboard and directional-light registries' ids are the light ids,
\* each registry is as large as its document array, no renderable is
\* registered twice and no renderable outside a registry is left in a group.
C3_RegistriesMatchDocument ==
  /\ DOMAIN primitiveMeshes = Ids(nodes)
  /\ Cardinality(DOMAIN primitiveMeshes) = Len(nodes)
  /\ DOMAIN lightObjects = Ids(lights)
  /\ DOMAIN sceneLights = Ids(lights)
  /\ Cardinality(DOMAIN lightObjects) = Len(lights)
  /\ Cardinality(DOMAIN sceneLights) = Len(lights)
  /\ Injective(primitiveMeshes) /\ Injective(lightObjects)
  /\ Injective(sceneLights)
  /\ InGroup("primitiveGroup") = Range(primitiveMeshes)
  /\ InGroup("lightGroup") = Range(lightObjects)
  /\ InGroup("sceneLightsGroup") = Range(sceneLights)
  /\ \A h \in DOMAIN heap : heap[h].parent # "none" => ~heap[h].disposed

\* Nodes and lights have been added and removed, and some node remains.
C3_Witness ==
  /\ Len(nodes) >= 1 /\ nodeSeq > Len(nodes)
  /\ lightSeq >= 1 /\ lightSeq > Len(lights)
  /\ primitiveMeshes # EmptyMap

\* C4: no two suspended passes decode the same asset, an asset whose decode
\* is pending is in the in-flight set and has no renderable yet, and the
\* imported group holds exactly the registry's objects, at most one per id.
C4_NoDuplicateDecode ==
  /\ \A i, j \in DOMAIN passes : passes[i].asset = passes[j].asset => i = j
  /\ \A i \in DOMAIN passes :
       /\ passes[i].asset \in loadingImports
       /\ passes[i].asset \notin DOMAIN importedObjects
  /\ InGroup("importedGroup") = Range(importedObjects)
  /\ \A g, h \in InGroup("importedGroup") : heap[g].id = heap[h].id => g = h

\* The decode of X is pending, the asset list has been replaced since the
\* pass began (so the watcher invoked syncImportedAssets again) and the new
\* list names X again.
C4_Witness ==
  /\ Len(passes) = 1 /\ ~passes[1].live
  /\ passes[1].asset \in Ids(importedAssets)

\* C5: a step that changes the asset list while a pass is awaiting a decode
\* (the watcher's syncImportedAssets call arrives re-entrantly) leaves no
\* renderable of an unlisted asset in the imported registry.
C5_ReentrantSyncRemoves ==
  [][(isSyncingImports /\ importedAssets' # importedAssets)
     => DOMAIN importedObjects' \subseteq Ids(importedAssets')]_vars

\* C6: when no decode is pending and no pass is running (every decode having
\* succeeded), the imported registry's ids are the listed asset ids.
C6_SettledRegistryMatchesList ==
  (passes = <<>> /\ ~isSyncingImports)
    => DOMAIN importedObjects = Ids(importedAssets)

\* The assets a pass resumed after p still has to decode: the entries of the
\* array it iterates, past p's position, that have no renderable.
Remaining(p) ==
  LET cur == IF p.live THEN importedAssets ELSE p.arr
  IN {j \in (p.idx + 1)..Len(cur) : cur[j].id \notin DOMAIN importedObjects}
AssetAt(p, j) == (IF p.live THEN importedAssets ELSE p.arr)[j].id
Least(S) == CHOOSE j \in S : \A k \in S : j <= k

C8_BurstIsPersisted ==
  [][(fired' /\ burst # Null) => emitted' = <<burst>>]_vars

\* C9: at most one debounce timer is pending and it is the one whose handle
\* the component holds; the callback runs only once the full debounce delay
\* has passed since the last change event, at most once per burst, and emits
\* at most one intent.
C9_SingleDebounceTimer ==
  /\ Cardinality(DOMAIN timers) <= 1
  /\ DOMAIN timers \subseteq {transformUpdateTimeout}
  /\ \A h \in DOMAIN timers : timers[h] = DebounceTicks - sinceChange
  /\ fired => sinceChange = DebounceTicks
  /\ firedSinceChange <= 1
  /\ Len(emitted) <= 1

\* A burst of at least two change events, each arriving while the previous
\* timer was pending, has just ended in one callback and one emission.
C9_Witness ==
  /\ fired /\ burstLen = 2 /\ firedSinceChange = 1
  /\ Len(emitted) = 1 /\ timers = EmptyMap

\* The meshes the edge overlay should hold lines for.
PrescribedEdges ==
  IF ~(displayMode = "wireframe" \/ showPolygonEdges) THEN {}
  ELSE IF displayMode = "wireframe" \/ selectedObjectId = Null
          \/ selectedIsLight
  THEN Range(primitiveMeshes) \cup Range(importedObjects)
  ELSE IF selectedIsPrimitive
  THEN {primitiveMeshes[id] :
          id \in {selectedObjectId} \cap DOMAIN primitiveMeshes}
  ELSE {importedObjects[id] :
          id \in {selectedObjectId} \cap DOMAIN importedObjects}

\* C10: in every state reached once all watchers have run, the edge overlay
\* holds lines for exactly the meshes that the display mode, the
\* polygon-edges toggle, the selection and the registries prescribe.
C10_EdgeOverlayMatchesState == edgeHelpers = PrescribedEdges

\* The meshes of the registries an overlay call was given.
CallMeshes(c) == Range(c.primitiveMeshes) \cup Range(c.importedObjects)
\* The call was given a selection that scopes the overlay to one object.
CallHasSelection(c) == c.selectedObjectId # Null /\ ~c.selectedIsLight
\* The meshes of the object the call's selection names.
CallSelected(c) ==
  IF c.selectedIsPrimitive
  THEN {c.primitiveMeshes[k] :
          k \in DOMAIN c.primitiveMeshes \cap {c.selectedObjectId}}
  ELSE {c.importedObjects[k] :
          k \in DOMAIN c.importedObjects \cap {c.selectedObjectId}}

\* C11: whenever updatePolygonEdgesDisplay has run on a scene with at least
\* one mesh, whatever the selection, the edge overlay has no child if the
\* mode is solid and the polygon-edges toggle is off, at least one child if
\* the mode is solid and the toggle is on, and at least one child if the mode
\* is wireframe.
C11_EdgeCountByMode ==
  \A c \in overlayCalls :
    (c.fn = "edges" /\ CallMeshes(c) # {}) =>
      /\ (c.displayMode = "solid" /\ ~c.show) => c.shown = {}
      /\ (c.displayMode = "solid" /\ c.show) => c.shown # {}
      /\ c.displayMode = "wireframe" => c.shown # {}

\* C11 as amended: the same, except that in solid mode with the toggle on
\* the overlay has a child exactly when the selection is empty or a light,
\* or names an object that has a mesh in the registry of its kind.
C11_EdgeCountByModeAmended ==
  \A c \in overlayCalls :
    (c.fn = "edges" /\ CallMeshes(c) # {}) =>
      /\ (c.displayMode = "solid" /\ ~c.show) => c.shown = {}
      /\ (c.displayMode = "solid" /\ c.show) =>
           (c.shown # {} <=> (CallHasSelection(c) => CallSelected(c) # {}))
      /\ c.displayMode = "wireframe" => c.shown # {}
C11_Witness ==
  /\ \E c \in overlayCalls :
       /\ c.fn = "edges" /\ c.displayMode = "solid" /\ c.show
       /\ CallHasSelection(c) /\ c.shown # {}
       /\ c.shown # CallMeshes(c)
  /\ displayMode = "solid"

\* C12: whenever updateVerticesDisplay has run, the vertex overlay is empty
\* if showVertices is off; if it is on, the overlay holds point sets for
\* exactly the meshes of the selected primitive or imported object when a
\* non-light object is selected, and for every mesh of both registries when
\* nothing or a light is selected; no light billboard has a point set.
C12_VertexOverlayScope ==
  \A c \in overlayCalls :
    c.fn = "vertices" =>
      /\ ~c.show => c.shown = {}
      /\ (c.show /\ CallHasSelection(c)) => c.shown = CallSelected(c)
      /\ (c.show /\ ~CallHasSelection(c)) => c.shown = CallMeshes(c)
      /\ c.shown \cap Range(c.lightObjects) = {}
C12_Witness ==
  \E c \in overlayCalls :
    /\ c.fn = "vertices" /\ c.show /\ c.selectedIsLight
    /\ c.selectedObjectId \in DOMAIN c.lightObjects
    /\ Cardinality(c.shown) = 2

\* C13: once the display mode is solid again after a switch from solid to
\* wireframe, every mesh of the primitive and imported registries is opaque
\* (opacity 1.0, not transparent) and a mesh that was there before the
\* switch has the colour it had then.
C13_SolidRoundTrip ==
  (displayMode = "solid" /\ solidColors # EmptyMap) =>
    \A h \in Range(primitiveMeshes) \cup Range(importedObjects) :
      /\ heap[h].opacity = 100
      /\ ~heap[h].transparent
      /\ h \in DOMAIN solidColors => heap[h].color = solidColors[h]
C13_Witness ==
  /\ displayMode = "solid"
  /\ Range(importedObjects) \cap DOMAIN solidColors # {}
  /\ Range(primitiveMeshes) \cap DOMAIN solidColors # {}

\* C14: the light container holds exactly one ambient fill light if the
\* document has at least one light and none otherwise, however many times
\* the materials have been resolved.
C14_OneAmbientLight == ambientLights = (IF Len(lights) > 0 THEN 1 ELSE 0)
C14_Witness ==
  /\ Len(lights) = 2 /\ Len(nodes) = 2 /\ ambientLights = 1
  /\ DOMAIN sceneLights = Ids(lights)
  /\ \A h \in Range(primitiveMeshes) : heap[h].lit

\* C15: every mesh of the primitive and imported registries has the lit
\* material class if the document has a light and the unlit class if it has
\* none.
C15_MaterialClassFollowsLights ==
  \A h \in Range(primitiveMeshes) \cup Range(importedObjects) :
    heap[h].lit = (Len(lights) > 0)
C15_Witness ==
  /\ Len(lights) > 0
  /\ primitiveMeshes # EmptyMap /\ importedObjects # EmptyMap
  /\ passes = <<>>
  /\ \A h \in Range(primitiveMeshes) \cup Range(importedObjects) : heap[h].lit

\* C16: once the component is torn down, teardown has stopped the frame
\* loop, cleared the input state, cancelled the debounce timer, released the
\* selection-outline helper, disposed the renderables and disposed the
\* renderer and camera controls, in that order.
C16_TeardownOrder ==
  ~mounted =>
    teardown = <<"stopFrameLoop", "clearInput", "cancelTimer",
                 "releaseHelper", "disposeRenderables", "disposeRenderer">>

\* C17: once the component is torn down no debounce timer is pending (the
\* one pending at teardown has been cancelled) and no step emits an edit
\* intent.
C17_NoIntentAfterTeardown ==
  ~mounted =>
    /\ timers = EmptyMap
    /\ transformUpdateTimeout = NoTimer
    /\ emitted = <<>>
C17_Witness == ~mounted /\ burst # Null /\ timers = EmptyMap /\ drags > 0

\* C18: a left-button press on the canvas arms a pick candidate at the press
\* location; the release of that press runs a pick, at the press location,
\* exactly when the pointer is then no farther from the press location than
\* the drag threshold, and a release without a pick leaves the selection
\* unchanged.
C18_PickIffNoNetMovement ==
  [][/\ (pointer.left = Null /\ pointer'.left # Null
         /\ pointer'.left.onCanvas)
        => pendingPickEvent' = [x |-> pointer'.left.start]
     /\ (pointer.left # Null /\ pointer.left.onCanvas
         /\ pointer'.left = Null)
        => /\ picked' # Null
                <=> ~BeyondThreshold(pointer.x, pointer.left.start)
           /\ picked' # Null => picked' = [x |-> pointer.left.start]
           /\ picked' = Null =>
                UNCHANGED <<selectedObject, currentSelectedId,
                            wsSelectedObjectId>>]_vars

\* C18 as amended: the same, except that the release runs a pick exactly
\* when no pointer move since the press went farther from the press location
\* than the drag threshold.
C18_PickIffNeverBeyond ==
  [][/\ (pointer.left = Null /\ pointer'.left # Null
         /\ pointer'.left.onCanvas)
        => pendingPickEvent' = [x |-> pointer'.left.start]
     /\ (pointer.left # Null /\ pointer.left.onCanvas
         /\ pointer'.left = Null)
        => /\ picked' # Null <=> ~pointer.left.far
           /\ picked' # Null => picked' = [x |-> pointer.left.start]
           /\ picked' = Null =>
                UNCHANGED <<selectedObject, currentSelectedId,
                            wsSelectedObjectId>>]_vars
C18_Witness ==
  /\ picked # Null /\ picked.x # pointer.x
  /\ selectedObject # NoObject /\ pointer.left = Null

\* C19: the context menu becomes visible only in a step that delivers a
\* contextmenu event whose right-button gesture did not go beyond the drag
\* threshold.
C19_MenuOnlyWithoutDrag ==
  [][(~contextMenu.visible /\ contextMenu'.visible)
       => (menuEvent' /\ menuDue # Null /\ ~menuDue.far)]_vars

\* C20: the held-key set contains only movement keys that are still
\* physically held and were pressed while the viewport had the focus, and it
\* is empty from a window blur until the next keydown arrives.
C20_HeldMovementKeys ==
  /\ keyState \subseteq (MovementKeys \cap keysHeld \cap pressedInFocus)
  /\ ~windowFocused => keyState = {}

\* C20 as amended: the same, for the letter, Shift and Space keys instead of
\* the movement keys.
C20_HeldTrackedKeys ==
  /\ keyState \subseteq (TrackedCodes \cap keysHeld \cap pressedInFocus)
  /\ ~windowFocused => keyState = {}
C20_Witness ==
  /\ ~windowFocused /\ keyState = {}
  /\ {"KeyW", "KeyQ"} \subseteq pressedInFocus

\* C21: the camera movement speed stays within [CAMERA_SPEED_MIN,
\* CAMERA_SPEED_MAX]; a wheel event over the focused viewport changes it by
\* one step (down for a positive deltaY, up otherwise) when the result is in
\* the range and leaves it at the bound it would cross otherwise; a wheel
\* event while the viewport is not focused leaves it unchanged.
C21_SpeedStepsWithinRange ==
  /\ [](cameraMovementSpeed \in CAMERA_SPEED_MIN..CAMERA_SPEED_MAX)
  /\ [][wheel' # Null =>
         IF activeElement # "viewport"
         THEN cameraMovementSpeed' = cameraMovementSpeed
         ELSE LET stepped == cameraMovementSpeed
                               + (IF wheel'.deltaY > 0
                                  THEN 0 - CAMERA_SPEED_STEP
                                  ELSE CAMERA_SPEED_STEP)
              IN /\ stepped \in CAMERA_SPEED_MIN..CAMERA_SPEED_MAX
                      => cameraMovementSpeed' = stepped
                 /\ stepped < CAMERA_SPEED_MIN
                      => cameraMovementSpeed' = CAMERA_SPEED_MIN
                 /\ stepped > CAMERA_SPEED_MAX
                      => cameraMovementSpeed' = CAMERA_SPEED_MAX]_vars
C21_Witness ==
  /\ wheel # Null /\ wheel.deltaY > 0 /\ activeElement = "viewport"
  /\ cameraMovementSpeed = CAMERA_SPEED_MIN

\* C22: after a switch of the camera type from perspective to orthographic
\* and back with nothing else moving the camera, the active camera has the
\* position and orientation it had before the first switch, and the orbit
\* target is unchanged.
C22_SwitchRoundTrip ==
  (camera = "perspective" /\ poseBefore # Null)
    => /\ perspCamera = poseBefore.pose
       /\ controlsTarget = poseBefore.target
C22_Witness ==
  /\ camera = "perspective" /\ poseBefore # Null
  /\ perspCamera # DefaultPose /\ orthoCamera = perspCamera

\* C23: a frame with KeyW the only movement key held and the viewport
\* focused moves the camera along its view direction by the speed times the
\* frame's clock delta, capped at MAX_FRAME_DELTA, so never by more than the
\* speed times MAX_FRAME_DELTA; and while KeyW has been held so for a time
\* in which no frame was longer than MAX_FRAME_DELTA, at a constant speed
\* S, the camera is S times that time along the view direction from where
\* it was.
C23_FlyDistance ==
  /\ [][(frame' # Null /\ mounted /\ activeElement = "viewport"
           /\ keyState \cap MovementKeys = {"KeyW"})
         => LET cam == IF camera = "perspective" THEN perspCamera
                       ELSE orthoCamera
                now == IF camera = "perspective" THEN perspCamera'
                       ELSE orthoCamera'
                step == cameraMovementSpeed
                          * (IF frame'.delta < MAX_FRAME_DELTA
                             THEN frame'.delta ELSE MAX_FRAME_DELTA)
            IN /\ now = [cam EXCEPT !.position.base =
                           MoveBy(@, <<cam.quaternion, 1, 0, 0>>, step)]
               /\ step <= cameraMovementSpeed * MAX_FRAME_DELTA]_vars
  /\ []((hold # Null /\ hold.steady)
          => (IF camera = "perspective" THEN perspCamera ELSE orthoCamera)
               = [hold.from EXCEPT !.position.base =
                    MoveBy(@, <<hold.from.quaternion, 1, 0, 0>>,
                           hold.S * hold.time)])
C23_Witness ==
  /\ hold # Null /\ hold.steady /\ hold.time = 40 /\ hold.S = 70
  /\ frame # Null

\* C24: applying alignObjectToGround again to an object gives the pose the
\* first application gave, and after it the bounding box of an object that
\* has one has its least Y at 0 and its X and Z centre at 0.
C24_AlignIdempotent ==
  (model3d # Null /\ model3d.calls >= 1)
    => /\ model3d.object = model3d.first
       /\ ~setFromObject(model3d.object).isEmpty
            => /\ setFromObject(model3d.object).min[2] = 0
               /\ setFromObject(model3d.object).min[1]
                    + setFromObject(model3d.object).max[1] = 0
               /\ setFromObject(model3d.object).min[3]
                    + setFromObject(model3d.object).max[3] = 0
C24_Witness ==
  /\ model3d # Null /\ model3d.calls = 2
  /\ Cardinality(model3d.object.boxes) = 2
  /\ model3d.object.scale = 3
  /\ model3d.object.position # <<0, 0, 0>>

\* C25: the ground offset of a node's mesh is 0.5 for a box, sphere, cylinder
\* or cone, 0.15 for a torus and 0 for a plane (10, 3 and 0 in 1/20 unit);
\* a node of an unknown kind gets the box offset and the box geometry.
C25_GroundOffsetByKind ==
  \A i \in 1..Len(nodes) :
    nodes[i].id \in DOMAIN primitiveMeshes =>
      LET mesh == heap[primitiveMeshes[nodes[i].id]]
          kind == nodes[i].primitive
      IN /\ mesh.position - nodes[i].position =
              (IF kind \in {"box", "sphere", "cylinder", "cone"} THEN 10
               ELSE IF kind = "torus" THEN 3
               ELSE IF kind = "plane" THEN 0 ELSE 10)
         /\ mesh.geometry.shape =
              (IF kind \in PrimitiveTypes THEN kind ELSE "box")
C25_Witness ==
  /\ Len(nodes) = 2
  /\ nodes[1].primitive = "torus" /\ nodes[2].primitive = UnknownKind
  /\ \A i \in 1..2 : nodes[i].id \in DOMAIN primitiveMeshes

\* C26: when onMounted cannot create a renderer, setup has stopped with no
\* frame loop started, no input listener attached and no gizmo or orbit
\* control created; when only the axes renderer failed, the main renderer
\* that was created is disposed and its variable cleared.
C26_AbortedSetup ==
  /\ mountOutcome \in {"noWebGL", "mainThrows", "axesThrows"}
       => /\ ~frameRequested /\ listeners = {} /\ ~mounted
          /\ gizmoObject = NoObject
          /\ renderer = "null" /\ axesRenderer = "null"
          /\ \A r \in DOMAIN gpuObjects : gpuObjects[r] # "live"
  /\ mountOutcome = "axesThrows" => gpuObjects.main = "disposed"
C26_Witness ==
  /\ mountOutcome = "axesThrows" /\ gpuObjects.main = "disposed"
  /\ renderer = "null"

\* C27: deleteNode, deleteLight, updateNodePosition, updateNodeScale,
\* updateNodeRotation and updateLightPosition change only what they are
\* about: an update changes one property of the entries whose id matches and
\* leaves every other node and light as it was, a deletion removes the
\* entries whose id matches and nothing else, and an id that matches no
\* entry leaves the contents of nodes and lights unchanged.
UpdatedField(op) ==
  CASE op = "updateNodePosition" -> "position"
    [] op = "updateNodeScale" -> "scale"
    [] op = "updateNodeRotation" -> "rotation"
    [] op = "updateLightPosition" -> "position"

OnlyMatchingUpdated(before, after, id, field) ==
  /\ Len(after) = Len(before)
  /\ \A i \in DOMAIN before :
       /\ before[i].id # id => after[i] = before[i]
       /\ DOMAIN after[i] = DOMAIN before[i]
       /\ \A f \in DOMAIN before[i] \ {field} : after[i][f] = before[i][f]

C28_MissingLightsAreNoLights ==
  legacy # Null =>
    /\ legacy.addLight.present /\ Len(legacy.addLight.lights) = 1
    /\ legacy.deleteLight = {[present |-> TRUE, lights |-> <<>>]}
    /\ legacy.updateLightPosition = {[present |-> TRUE, lights |-> <<>>]}
    /\ legacy.hydrate = [present |-> TRUE, lights |-> <<>>]
    /\ ~legacy.hasLights
    /\ lightObjects = EmptyMap /\ sceneLights = EmptyMap
    /\ InGroup("lightGroup") = {} /\ InGroup("sceneLightsGroup") = {}
    /\ ambientLights = 0
    /\ \A h \in Range(primitiveMeshes) : ~heap[h].lit

\* The document that lost its lights array had two lights and a node whose
\* mesh was lit.
C28_Witness ==
  /\ legacy # Null /\ legacy.had = 2
  /\ primitiveMeshes # EmptyMap

PreviousSceneId == <<"scene", sceneSeq - 1>>

C30_RestoredAfterReload ==
  (/\ hydrated # Null /\ sceneSeq > 1 /\ ~edited
   /\ PreviousSceneId \in DOMAIN scenes) =>
    /\ nodes = scenes[PreviousSceneId].nodes
    /\ lights = scenes[PreviousSceneId].lights

\* C31: every mesh of the primitive and imported registries is transparent
\* with opacity 0.03 when the display mode is wireframe and opaque with
\* opacity 1.0 when it is solid, whenever it was created, and none of them
\* has the native wireframe flag set.
C31_MaterialFollowsDisplayMode ==
  \A h \in Range(primitiveMeshes) \cup Range(importedObjects) :
    /\ ~heap[h].wireframe
    /\ displayMode = "wireframe" =>
         heap[h].transparent /\ heap[h].opacity = 3
    /\ displayMode = "solid" =>
         ~heap[h].transparent /\ heap[h].opacity = 100

\* In wireframe mode with a light in the document, a primitive and an
\* imported model are registered, both nearly invisible.
C31_Witness ==
  /\ displayMode = "wireframe" /\ Len(lights) > 0
  /\ primitiveMeshes # EmptyMap /\ importedObjects # EmptyMap
  /\ \A h \in Range(primitiveMeshes) \cup Range(importedObjects) :
       heap[h].transparent /\ heap[h].opacity = 3

\* ---------------------------------------------------------------- C32
\* One pass of both synchronizations against the document of s.
syncScene(s) == syncLights(syncPrimitiveNodes(s))

SceneRegistries == {"primitiveMeshes", "lightObjects", "sceneLights"}

Pose(obj) == <<obj.position, obj.rotation, obj.scale>>

\* C32: running syncPrimitiveNodes and syncLights again against the same
\* document creates no object, disposes none, and leaves every id of the
\* primitive, billboard and light-source registries on the same object with
\* the same position, rotation and scale.
C32_SyncIsIdempotent ==
  LET again == syncScene(Cur)
  IN /\ DOMAIN again.heap = DOMAIN heap
     /\ \A h \in DOMAIN heap : again.heap[h].disposed = heap[h].disposed
     /\ \A r \in SceneRegistries : again[r] = Cur[r]
     /\ \A r \in SceneRegistries : \A id \in DOMAIN Cur[r] :
          Pose(again.heap[again[r][id]]) = Pose(heap[Cur[r][id]])

\* Two primitives away from the origin's pose and a light are registered,
\* one of them selected, after an earlier primitive was removed.
C32_Witness ==
  /\ Cardinality(DOMAIN primitiveMeshes) >= 2
  /\ lightObjects # EmptyMap /\ sceneLights # EmptyMap
  /\ selectedObject \in Range(primitiveMeshes)
  /\ nodeSeq > Len(nodes)
  /\ \E h \in Range(primitiveMeshes) : heap[h].position # 0

\* ---------------------------------------------------------------- C33
\* Gizmo edits of primitives whose ground offsets differ.
OffsetKinds == {"torus", "plane"}
OffsetMaxNodes == 1

NextOffset ==
  \/ \E primitive \in OffsetKinds :
       nodeSeq < OffsetMaxNodes /\ AddPrimitive(primitive)
  \/ \E id \in Ids(nodes) : InspectorSelect(id, TRUE, FALSE)
  \/ \E mode \in TransformModes : PressDigit(mode)
  \/ \E delta \in 0..1 : GizmoChange(delta)
  \/ Tick
  \/ \E h \in DOMAIN timers : TimerFire(h)

SpecOffset == Init /\ [][NextOffset]_vars

\* The primitive type of the node with this id.
KindOf(id) == (CHOOSE n \in Range(nodes) : n.id = id).primitive

\* A primitive is selected and the gizmo is in translate mode.
PrimitiveInTranslate ==
  /\ mounted /\ selectedObject # NoObject /\ currentSelectedId # Null
  /\ isPrimitive /\ transformMode = "translate"

\* C33: when the debounce callback runs with a primitive selected in
\* translate mode, the position it emits is the mesh's position less the
\* ground offset of the node's kind, and after the document has taken that
\* position and the nodes have been synchronized the mesh is where it was.
C33_TranslateRoundTrip ==
  [][(fired' /\ PrimitiveInTranslate) =>
       /\ emitted' =
            <<Intent("update-node-position", currentSelectedId,
                     heap[selectedObject].position
                       - getPrimitiveYOffset(KindOf(currentSelectedId)))>>
       /\ selectedObject' = selectedObject
       /\ heap'[selectedObject].position = heap[selectedObject].position
       /\ \E n \in Range(nodes') :
            /\ n.id = currentSelectedId
            /\ n.position + getPrimitiveYOffset(n.primitive)
                 = heap'[selectedObject].position]_vars

\* The callback has just persisted the dragged position of a torus: the
\* document holds it without the torus's offset, the mesh with it.
C33_Witness ==
  /\ fired /\ PrimitiveInTranslate
  /\ Len(emitted) = 1 /\ emitted[1].event = "update-node-position"
  /\ KindOf(currentSelectedId) = "torus"
  /\ emitted[1].value = 1
  /\ heap[selectedObject].position = 4

\* ---------------------------------------------------------------- C34
\* Gizmo edits of lights.
LightGizmoMaxLights == 1

NextLightGizmo ==
  \/ lightSeq < LightGizmoMaxLights /\ AddLight
  \/ PressEscape
  \/ \E id \in Ids(lights) : InspectorSelect(id, FALSE, TRUE)
  \/ \E mode \in TransformModes : PressDigit(mode)
  \/ \E delta \in 0..1 : GizmoChange(delta)
  \/ Tick
  \/ \E h \in DOMAIN timers : TimerFire(h)

SpecLightGizmo == Init /\ [][NextLightGizmo]_vars

\* The selected object is a light's billboard.
LightSelected == mounted /\ selectedObject \in Range(lightObjects)

NodeOrImportedEvents ==
  {"update-node-position", "update-node-rotation", "update-node-scale",
   "update-imported-position", "update-imported-rotation",
   "update-imported-scale"}

\* C34: when the debounce callback runs with a light's billboard selected it
\* emits update-light-position with the billboard's position if the gizmo is
\* in translate mode and nothing if it is in rotate or scale mode, so never
\* a node or imported-asset intent.
C34_LightEmitsPositionOnly ==
  [][(fired' /\ LightSelected) =>
       /\ emitted' =
            IF transformMode = "translate"
            THEN <<Intent("update-light-position", currentSelectedId,
                          heap[selectedObject].position)>>
            ELSE <<>>
       /\ \A i \in DOMAIN emitted' :
            emitted'[i].event \notin NodeOrImportedEvents]_vars

\* The callback has just run in rotate mode for a billboard the gizmo had
\* rotated, and emitted nothing: the light in the document is where it was.
C34_Witness ==
  /\ fired /\ LightSelected /\ transformMode = "rotate"
  /\ emitted = <<>>
  /\ heap[selectedObject].rotation # 0
  /\ \E l \in Range(lights) :
       l.id = currentSelectedId /\ l.position = heap[selectedObject].position

\* ---------------------------------------------------------------- C35
\* Primitives and imported models come and go between frames, up to
\* teardown and past it.
CountKinds == {"box", "plane"}
CountMaxNodes == 1
CountMaxAssets == 1
CountMaxFrames == 2

NextCount ==
  \/ \E primitive \in CountKinds :
       nodeSeq < CountMaxNodes /\ AddPrimitive(primitive)
  \/ \E id \in Ids(nodes) : DeleteNode(id)
  \/ assetSeq < CountMaxAssets /\ ImportModel
  \/ \E id \in Ids(importedAssets) : DeleteImportedModel(id)
  \/ \E k \in DOMAIN passes : DecodeResolve(k)
  \/ frameSeq < CountMaxFrames /\ Frame(20)
  \/ Unmount

SpecCount == Init /\ [][NextCount]_vars

\* The primitive and imported registries differ between the two states.
CountedRegistriesChange ==
  primitiveMeshes' # primitiveMeshes \/ importedObjects' # importedObjects

\* calculatePolygonCount runs only in a frame, only when the flag is set,
\* and once.
CountOnlyInDirtyFrame ==
  counted' > 0 => frame' # Null /\ polygonCountDirty /\ counted' = 1

\* C35 as stated: in every state with the stale flag clear the displayed
\* count is the triangle count of the primitive and imported registries,
\* every change of those registries sets the flag, and the count is
\* recomputed only in a frame, only when the flag is set, and once.
C35_CountMatchesWhenClean ==
  [][/\ ~polygonCountDirty' => polygonCount' = calculatePolygonCount(Cur)'
     /\ CountedRegistriesChange => polygonCountDirty'
     /\ CountOnlyInDirtyFrame]_vars

\* C35: the same, up to teardown: while the component is mounted a clear
\* stale flag means the displayed count is the triangle count of the two
\* registries, and every change of the registries made by a synchronization
\* sets the flag.
C35_CountMatchesWhileMounted ==
  [][/\ (mounted' /\ ~polygonCountDirty')
          => polygonCount' = calculatePolygonCount(Cur)'
     /\ (mounted' /\ CountedRegistriesChange) => polygonCountDirty'
     /\ CountOnlyInDirtyFrame]_vars

\* A frame has just recomputed the count of a box and an imported model,
\* after an earlier frame had counted fewer.
C35_Witness ==
  /\ mounted /\ frame # Null /\ counted = 1 /\ ~polygonCountDirty
  /\ frameSeq = 2
  /\ primitiveMeshes # EmptyMap /\ importedObjects # EmptyMap
  /\ polygonCount > 12

\* ---------------------------------------------------------------- C36
\* The registry the kind flags of the selection point at.
RegistryOfSelectedKind ==
  IF isPrimitive THEN primitiveMeshes
  ELSE IF isLight THEN lightObjects
  ELSE importedObjects

\* C36: while the component is mounted the selected id is null exactly when
\* the selected object is, the two kind flags are never both true, and a
\* selected object is the one registered under the selected id in the
\* registry of the selected kind.
C36_SelectionIsRegistered ==
  mounted =>
    /\ currentSelectedId = Null <=> selectedObject = NoObject
    /\ ~(isPrimitive /\ isLight)
    /\ selectedObject # NoObject =>
         /\ currentSelectedId \in DOMAIN RegistryOfSelectedKind
         /\ RegistryOfSelectedKind[currentSelectedId] = selectedObject

\* An imported model is selected and registered while another decode is
\* pending, next to a primitive and a light.
C36_Witness ==
  /\ mounted /\ selectedObject # NoObject /\ ~isPrimitive /\ ~isLight
  /\ currentSelectedId \in DOMAIN importedObjects
  /\ importedObjects[currentSelectedId] = selectedObject
  /\ passes # <<>>
  /\ primitiveMeshes # EmptyMap /\ lightObjects # EmptyMap

\* ---------------------------------------------------------------- C37
\* Lights and imports with pending decodes, up to teardown and past it.
TeardownMaxLights == 1
TeardownMaxAssets == 2

NextTeardown ==
  \/ lightSeq < TeardownMaxLights /\ AddLight
  \/ assetSeq < TeardownMaxAssets /\ ImportModel
  \/ \E id \in Ids(importedAssets) : InspectorSelect(id, FALSE, FALSE)
  \/ \E mode \in {"solid", "wireframe"} : ClickDisplayMode(mode)
  \/ \E k \in DOMAIN passes : DecodeResolve(k)
  \/ \E k \in DOMAIN passes : DecodeReject(k)
  \/ Unmount

SpecTeardown == Init /\ [][NextTeardown]_vars

\* onBeforeUnmount has run.
TornDown == ~mounted /\ teardown # <<>>

\* C37: once the component is torn down the four registries are empty, and
\* no later step (a decode pending at unmount that resolves) registers an
\* object, changes the selection or rebuilds the overlays.
C37_EmptyAfterTeardown ==
  [][/\ TornDown' =>
          /\ primitiveMeshes' = EmptyMap /\ importedObjects' = EmptyMap
          /\ lightObjects' = EmptyMap /\ sceneLights' = EmptyMap
     /\ TornDown =>
          /\ selectedObject' = selectedObject
          /\ currentSelectedId' = currentSelectedId
          /\ edgeHelpers' = edgeHelpers /\ vertexHelpers' = vertexHelpers]_vars

\* ---------------------------------------------------------------- C38
\* The right-button gesture g began on the canvas and never went beyond the
\* drag threshold.
RightClick(g) == g # Null /\ g.onCanvas /\ ~g.far

\* C38: a right-button press and release on the canvas without movement
\* beyond the drag threshold leaves the context menu shown, whatever came
\* before: when the contextmenu event follows the release, after the step
\* that delivers it; when it came at the press, after the release.
C38_RightClickShowsMenu ==
  [][/\ (menuEvent' /\ RightClick(menuDue) /\ menuDue.menuAt = "release")
          => contextMenu'.visible
     /\ (RightClick(pointer.right) /\ pointer.right.menuAt = "press"
         /\ pointer'.right = Null)
          => contextMenu'.visible]_vars

\* ---------------------------------------------------------------- C39
\* C39: once the displayMode watcher has run, wireframe mode has both the
\* polygon-edges and the vertices toggle off, whatever they were before; no
\* step switches one on while the mode is wireframe, and the step back to
\* solid leaves both off.
C39_WireframeClearsToggles ==
  [][/\ displayMode' = "wireframe" => ~showPolygonEdges' /\ ~showVertices'
     /\ (displayMode = "wireframe" /\ displayMode' = "solid")
          => ~showPolygonEdges' /\ ~showVertices']_vars

\* The mode has just gone from solid, with both toggles on, to wireframe.
C39_Witness ==
  /\ displayMode = "wireframe" /\ switched # Null
  /\ switched.showPolygonEdges /\ switched.showVertices
  /\ ~showPolygonEdges /\ ~showVertices
  /\ primitiveMeshes # EmptyMap

\* ---------------------------------------------------------------- C40
\* The assets whose decode a suspended pass awaits.
DecodesInFlight == {passes[i].asset : i \in DOMAIN passes}

\* C40: at most one decode is awaited at any time, the in-flight set holds
\* at most one id, which is that decode's asset, and it is empty whenever
\* the re-entrancy flag is false.
C40_DecodesAreSequential ==
  /\ Len(passes) <= 1
  /\ Cardinality(loadingImports) <= 1
  /\ loadingImports = DecodesInFlight
  /\ ~isSyncingImports => loadingImports = {}

\* The second asset's decode is the one in flight: the first was decoded
\* and registered by the same pass.
C40_Witness ==
  /\ isSyncingImports /\ Len(passes) = 1
  /\ Len(importedAssets) = 2
  /\ passes[1].asset = importedAssets[2].id
  /\ loadingImports = {importedAssets[2].id}
  /\ importedAssets[1].id \in DOMAIN importedObjects

====
